---------------------------- MODULE Spec2Model ----------------------------
(***************************************************************************)
(* A model of balancebook: the chart of accounts, the loading of           *)
(* transactions, the journal with its derived caches, the classification   *)
(* of imported bank postings and the reconciliation operations.            *)
(*                                                                         *)
(* Python values are modelled as follows.  None is the string "None"; a    *)
(* date is a day number (an integer), so that date + timedelta(days=n) is  *)
(* integer addition; an amount is an integer number of cents; an object    *)
(* whose identity matters (a posting) carries a field pid; a text that is  *)
(* matched against a regular expression is the sequence of its letters.    *)
(* In the budget component, where months and years are stepped, a date is  *)
(* the integer 10000 * year + 100 * month + day, whose order is the order  *)
(* of the dates.                                                           *)
(***************************************************************************)
EXTENDS Integers, Sequences, FiniteSets, TLC

VARIABLES
    pc,             \* which operation of the component under check ran last
    accounts,       \* account.py: the records handed to build_chart_of_accounts
    chart,          \* account.py: what build_chart_of_accounts produced
    rows,           \* the csv rows handed to load_txns or load_budget_txn_rules
    loaded,         \* what load_txns or load_budget_txn_rules produced
    txns,               \* journal.py: Journal.txns
    balance_assertions, \* journal.py: Journal.balance_assertions
    cache,              \* journal.py: the caches _init_txns_cache builds
    result,             \* what the last call returned or raised
    raw_postings,       \* autoimport.py: the postings handed to classify
    classification_rules, \* autoimport.py: the classification rules, in order
    bank_rows,          \* autoimport.py: the rows of the bank csv file
    import_config,      \* autoimport.py: the CsvImportConfig of the bank file
    from_date,          \* autoimport.py: the date cutoff of the import
    known_postings,     \* autoimport.py: the dict of the known dedup keys
    budget_rule,        \* budget.py: the arguments of BudgetTxnRule, then the rule
    max_end             \* budget.py: the end date handed to the unrolling

vars == <<pc, accounts, chart, rows, loaded, txns, balance_assertions, cache, result,
          raw_postings, classification_rules, bank_rows, import_config, from_date,
          known_postings, budget_rule, max_end>>

chartVars == <<accounts, chart>>
loadVars == <<rows, loaded>>
journalVars == <<txns, balance_assertions, cache, result>>
importVars == <<raw_postings, classification_rules, bank_rows, import_config,
                from_date, known_postings>>
budgetVars == <<budget_rule, max_end>>

None == "None"

\* None where a date is expected: dates are day numbers counted from 1.
NoDate == 0

\* A text is the sequence of its letters; None where a text is expected is
\* the empty sequence (the texts of the model are not empty).
NoText == <<>>

(***************************************************************************)
(* Generic helpers on sequences.                                           *)
(***************************************************************************)
Range(s) == {s[i] : i \in 1..Len(s)}

\* The element of a one-element set.  The({F(x) : x \in {e}}) is F(e) with e
\* evaluated once.
The(S) == CHOOSE x \in S : TRUE

RECURSIVE SumTo(_, _)
SumTo(s, n) == IF n = 0 THEN 0 ELSE s[n] + SumTo(s, n - 1)

SumSeq(s) == The({SumTo(v, Len(v)) : v \in {s}})

RECURSIVE ConcatFrom(_, _)
ConcatFrom(ss, i) == IF i > Len(ss) THEN <<>> ELSE ss[i] \o ConcatFrom(ss, i + 1)

Concat(ss) == The({ConcatFrom(v, 1) : v \in {ss}})

\* The sequences over S of length at most n.
SeqUpTo(S, n) == UNION {[1..k -> S] : k \in 0..n}

(***************************************************************************)
(* account.py                                                              *)
(***************************************************************************)
AccountType == <<"Assets", "Liabilities", "Equity", "Income", "Expenses">>

valid_account_type_number(number, type) ==
    CASE type = "Assets"      -> number >= 1000 /\ number <= 1999
      [] type = "Liabilities" -> number >= 2000 /\ number <= 2999
      [] type = "Equity"      -> number >= 3000 /\ number <= 3999
      [] type = "Income"      -> number >= 4000 /\ number <= 4999
      [] type = "Expenses"    -> number >= 5000 /\ number <= 5999
      [] OTHER                -> FALSE

\* An account: the parent is the parent's identifier (a str before the
\* chart is built, the object of that identifier after), None for a root.
Account(identifier, number, parent) ==
    [identifier |-> identifier, number |-> number, parent |-> parent]

initialize_chart_of_accounts ==
    << Account("Assets", 1000, None),
       Account("Liabilities", 2000, None),
       Account("Equity", 3000, None),
       Account("Income", 4000, None),
       Account("Expenses", 5000, None) >>

\* if acc.parent: a str is falsy when it is None or empty
HasParent(acc) == acc.parent # None /\ acc.parent # ""

\* The accounts of an identifier -> account dict built from a list: a later
\* entry of the same identifier replaces an earlier one.
account_by_id(with_top_accounts, identifier) ==
    LET idx == {i \in 1..Len(with_top_accounts) :
                    with_top_accounts[i].identifier = identifier}
    IN  with_top_accounts[CHOOSE i \in idx : \A j \in idx : j <= i]

InDict(with_top_accounts, identifier) ==
    \E i \in 1..Len(with_top_accounts) : with_top_accounts[i].identifier = identifier

verify_accounts(accs) ==
    IF Len(accs) = 0 THEN "ok"
    ELSE IF Len(accs) # Cardinality({accs[i].number : i \in 1..Len(accs)})
         THEN "AccountNumberNotUnique"
    ELSE IF Len(accs) # Cardinality({accs[i].identifier : i \in 1..Len(accs)})
         THEN "AccountIdentifierNotUnique"
    ELSE "ok"

\* The loop over the records that lets a record named after a root replace it.
RECURSIVE redefine_top_accounts(_, _, _, _)
redefine_top_accounts(accs, i, chart_of_accounts, without_top_accounts) ==
    IF i > Len(accs)
    THEN [error |-> "ok", tops |-> chart_of_accounts, others |-> without_top_accounts]
    ELSE LET acc == accs[i]
             ts  == {t \in 1..5 : AccountType[t] = acc.identifier}
         IN  IF ts # {}
             THEN LET t == CHOOSE t \in ts : TRUE
                  IN  IF HasParent(acc)
                      THEN [error |-> "ReservedAccountId", tops |-> <<>>, others |-> <<>>]
                      ELSE IF ~valid_account_type_number(acc.number, AccountType[t])
                      THEN [error |-> "AssetsNumberInvalid", tops |-> <<>>, others |-> <<>>]
                      ELSE redefine_top_accounts(accs, i + 1,
                               [chart_of_accounts EXCEPT ![t] = acc], without_top_accounts)
             ELSE redefine_top_accounts(accs, i + 1, chart_of_accounts,
                                        Append(without_top_accounts, acc))

\* Mutant: the double check of the top accounts' numbers is left out.
top_numbers_reserved_skipped(tops, others) == FALSE

top_numbers_reserved(tops, others) ==
    \E n \in 1..Len(tops) : \E a \in 1..Len(others) : others[a].number = tops[n].number

\* The loop that resolves each parent: the error of the first record in
\* fault, "ok" when every parent resolves.
set_parents(tops, others) ==
    LET with_top_accounts == tops \o others
        bad == {i \in 1..Len(others) :
                   ~HasParent(others[i]) \/ ~InDict(with_top_accounts, others[i].parent)}
    IN  IF bad = {} THEN "ok"
        ELSE LET i == CHOOSE i \in bad : \A j \in bad : i <= j
             IN  IF ~HasParent(others[i]) THEN "ParentAccountNotSpecified"
                 ELSE "ParentAccountNotFound"

\* The while loop of the cycle check for one account; parent is the
\* identifier of the account the walk stands on (falsy at the end of the
\* chain). "cycle" when the walk meets acc again (Account.__eq__ compares the
\* numbers), "ok" when it ends at an account without parent, "hang" when it
\* does neither: after more steps than there are accounts the walk is inside
\* a cycle that does not hold acc, and the loop never ends.
RECURSIVE cycle_walk(_, _, _, _)
cycle_walk(with_top_accounts, acc, parent, fuel) ==
    IF parent = None \/ parent = "" THEN "ok"
    ELSE LET p == account_by_id(with_top_accounts, parent)
         IN  IF p.number = acc.number THEN "cycle"
             ELSE IF fuel = 0 THEN "hang"
             ELSE cycle_walk(with_top_accounts, acc, p.parent, fuel - 1)

RECURSIVE cycle_check(_, _)
cycle_check(with_top_accounts, i) ==
    IF i > Len(with_top_accounts) THEN "ok"
    ELSE LET acc == with_top_accounts[i]
             r == IF HasParent(acc)
                  THEN cycle_walk(with_top_accounts, acc, acc.parent,
                                  Len(with_top_accounts))
                  ELSE "ok"
         IN  IF r = "cycle" THEN "AccountCycle"
             ELSE IF r = "hang" THEN "hang"
             ELSE cycle_check(with_top_accounts, i + 1)

\* A stable sort of a sequence of accounts by number (list.sort(key=number)).
RECURSIVE sort_by_number(_)
sort_by_number(s) ==
    IF s = <<>> THEN <<>>
    ELSE LET m == CHOOSE i \in 1..Len(s) :
                     /\ \A j \in 1..Len(s) : s[i].number <= s[j].number
                     /\ \A j \in 1..(i - 1) : s[j].number # s[i].number
         IN  <<s[m]>> \o sort_by_number(SubSeq(s, 1, m - 1) \o SubSeq(s, m + 1, Len(s)))

\* acc.children once the children were appended and sorted.
children(others, acc) ==
    sort_by_number(SelectSeq(others, LAMBDA a : a.parent = acc.identifier))

\* Account.get_descendants; depth bounds the recursion, which the code leaves
\* to the absence of cycles.
RECURSIVE get_descendants(_, _, _)
get_descendants(others, acc, depth) ==
    IF depth = 0 THEN <<>>
    ELSE LET cs == children(others, acc)
         IN  Concat([i \in 1..Len(cs) |->
                       <<cs[i]>> \o get_descendants(others, cs[i], depth - 1)])

get_account_and_descendants(others, acc) ==
    <<acc>> \o get_descendants(others, acc, Len(others))

\* The accounts of a returned chart below its t-th root, the root included.
ChartAccounts(c, t) == get_account_and_descendants(c.others, c.tops[t])

AllChartAccounts(c) == Concat([t \in 1..5 |-> ChartAccounts(c, t)])

NumberInvalid ==
    <<"AssetsNumberInvalid", "LiabilitiesNumberInvalid", "EquityNumberInvalid",
      "IncomeNumberInvalid", "ExpensesNumberInvalid">>

\* Mutant: only the children of a root are checked, not every descendant.
verify_chart_of_accounts_children_only(tops, others) ==
    LET bad == {t \in 1..5 :
                  \E acc \in Range(children(others, tops[t])) :
                      ~valid_account_type_number(acc.number, AccountType[t])}
    IN  IF bad = {} THEN "ok"
        ELSE NumberInvalid[CHOOSE t \in bad : \A u \in bad : t <= u]

verify_chart_of_accounts(tops, others) ==
    LET bad == {t \in 1..5 :
                  \E acc \in Range(get_descendants(others, tops[t], Len(others))) :
                      ~valid_account_type_number(acc.number, AccountType[t])}
    IN  IF bad = {} THEN "ok"
        ELSE NumberInvalid[CHOOSE t \in bad : \A u \in bad : t <= u]

Raised(e) == [status |-> e, tops |-> <<>>, others |-> <<>>]

build_chart_of_accounts(accs) ==
    LET v == verify_accounts(accs) IN
    IF v # "ok" THEN Raised(v) ELSE
    LET r == redefine_top_accounts(accs, 1, initialize_chart_of_accounts, <<>>) IN
    IF r.error # "ok" THEN Raised(r.error) ELSE
    IF top_numbers_reserved(r.tops, r.others) THEN Raised("AccountNumberReserved") ELSE
    LET p == set_parents(r.tops, r.others) IN
    IF p # "ok" THEN Raised(p) ELSE
    LET c == cycle_check(r.tops \o r.others, 1) IN
    IF c # "ok" THEN Raised(c) ELSE
    LET n == verify_chart_of_accounts(r.tops, r.others) IN
    IF n # "ok" THEN Raised(n) ELSE
    [status |-> "ok", tops |-> r.tops, others |-> r.others]

(***************************************************************************)
(* The chart component: the records are drawn from a bounded set and       *)
(* build_chart_of_accounts runs on them.                                   *)
(***************************************************************************)
MaxAccounts == 2

AccountIdentifiers == {"Assets", "a", "b"}
AccountNumbers == {1000, 1001, 1002, 1999, 2001}
AccountParents == {"", "Assets", "Liabilities", "a", "b"}

AccountRecords ==
    {Account(i, n, p) : i \in AccountIdentifiers, n \in AccountNumbers, p \in AccountParents}

NoChart == Raised("none")

NoTxns == [status |-> "none", txns |-> <<>>]

\* A journal that is not loaded: Journal.__init__.
NoCache == [txns_by_id |-> <<>>, postings_by_account |-> <<>>, account_balance |-> <<>>,
            account_st_balance |-> <<>>, assertion_by_account |-> <<>>]

NoResult == [op |-> "none", status |-> "none"]

NoJournal ==
    /\ txns = <<>> /\ balance_assertions = <<>>
    /\ cache = NoCache /\ result = NoResult

\* A dict without keys.
EmptyDict == [k \in {} |-> 0]

\* None where an account is expected.
NoAccount == Account(None, 0, None)

\* No import is under way.
NoImportConfig == [account |-> NoAccount, default_snd_account |-> NoAccount,
                   import_zero_amount |-> FALSE]

\* No budget rule is under check.
NoBudget == budget_rule = None /\ max_end = NoDate

NoImport ==
    /\ raw_postings = <<>> /\ classification_rules = <<>> /\ bank_rows = <<>>
    /\ import_config = NoImportConfig /\ from_date = NoDate
    /\ known_postings = EmptyDict

InitChart ==
    /\ pc = "accounts"
    /\ accounts \in SeqUpTo(AccountRecords, MaxAccounts)
    /\ chart = NoChart /\ NoBudget
    /\ rows = <<>> /\ loaded = NoTxns
    /\ NoJournal /\ NoImport

BuildChart ==
    /\ pc = "accounts"
    /\ chart' = build_chart_of_accounts(accounts)
    /\ pc' = "chart"
    /\ UNCHANGED <<accounts, loadVars, journalVars, importVars, budgetVars>>

NextChart == BuildChart

SpecChart == InitChart /\ [][NextChart]_vars

(***************************************************************************)
(* transaction.py: postings, transactions and load_txns.                   *)
(*                                                                         *)
(* A posting is a record; pid stands for the identity of the Python        *)
(* object.  journal.py reads the date of a posting (p.date); load_txns     *)
(* gives every posting of a transaction the date of the transaction (it    *)
(* raises TxnDateMismatch otherwise), so the model keeps the date on the   *)
(* posting and a transaction is its id with its postings.                  *)
(***************************************************************************)
Posting(pid, date, account, amount, payee, statement_date, statement_description, comment) ==
    [pid |-> pid, date |-> date, account |-> account, amount |-> amount,
     payee |-> payee, statement_date |-> statement_date,
     statement_description |-> statement_description, comment |-> comment]

Txn(txn_id, postings) == [id |-> txn_id, postings |-> postings]

\* Mutant: the sum of the postings is not checked.
verify_txn_no_sum(txn) ==
    IF Len(txn.postings) < 2 THEN "TxnLessThanTwoPostings" ELSE "ok"

verify_txn(txn) ==
    IF Len(txn.postings) < 2 THEN "TxnLessThanTwoPostings"
    ELSE IF SumSeq([i \in 1..Len(txn.postings) |-> txn.postings[i].amount]) # 0
         THEN "TxnNotBalanced"
    ELSE "ok"

\* A csv row of the transaction file; the statement date may be missing.
Row(txn_id, date, account, amount, statement_date) ==
    [txn_id |-> txn_id, date |-> date, account |-> account, amount |-> amount,
     statement_date |-> statement_date]

\* The loop over the rows: txns holds the values of txns_dict in insertion
\* order.
RECURSIVE load_rows(_, _, _, _)
load_rows(csv_rows, i, accounts_by_number, txns_dict) ==
    IF i > Len(csv_rows) THEN [status |-> "ok", txns |-> txns_dict]
    ELSE LET row == csv_rows[i]
             st_dt == IF row.statement_date # NoDate THEN row.statement_date ELSE row.date
             known == {k \in 1..Len(txns_dict) : txns_dict[k].id = row.txn_id}
         IN  IF ~InDict(accounts_by_number, row.account)
             THEN [status |-> "UnknownAccount", txns |-> <<>>]
             ELSE LET p == Posting(i, row.date,
                                   account_by_id(accounts_by_number, row.account),
                                   row.amount, NoText, st_dt, NoText, NoText)
                  IN  IF known = {}
                      THEN load_rows(csv_rows, i + 1, accounts_by_number,
                                     Append(txns_dict, Txn(row.txn_id, <<p>>)))
                      ELSE LET k == CHOOSE k \in known : TRUE
                           IN  IF txns_dict[k].postings[1].date # row.date
                               THEN [status |-> "TxnDateMismatch", txns |-> <<>>]
                               ELSE load_rows(csv_rows, i + 1, accounts_by_number,
                                        [txns_dict EXCEPT ![k].postings = Append(@, p)])

load_txns(csv_rows, accounts_by_number) ==
    LET r == load_rows(csv_rows, 1, accounts_by_number, <<>>)
    IN  IF r.status # "ok" THEN r
        ELSE LET bad == {k \in 1..Len(r.txns) : verify_txn(r.txns[k]) # "ok"}
             IN  IF bad = {} THEN r
                 ELSE [status |-> verify_txn(r.txns[CHOOSE k \in bad : \A j \in bad : k <= j]),
                       txns |-> <<>>]

(***************************************************************************)
(* The chart of the journals of the model: the five roots, Chequing below  *)
(* Assets and Project North below Chequing.                                *)
(***************************************************************************)
JournalChart ==
    build_chart_of_accounts(<< Account("Chequing", 1001, "Assets"),
                               Account("Project North", 1002, "Chequing") >>)

\* Journal._init_account_cache: the accounts of the chart, and
\* _accounts_by_name as the list the dict is built from.
journal_accounts == AllChartAccounts(JournalChart)

(***************************************************************************)
(* The load component: rows are drawn from a bounded set and load_txns     *)
(* runs on them.                                                           *)
(***************************************************************************)
MaxRows == 3

CsvRows ==
    {Row(i, d, "Chequing", a, sd) : i \in {1, 2}, d \in {1, 2}, a \in {-5, 0, 5},
                                    sd \in {NoDate, 3}}
    \cup {Row(1, 1, "Savings", 5, NoDate)}

InitLoad ==
    /\ pc = "rows"
    /\ rows \in SeqUpTo(CsvRows, MaxRows)
    /\ loaded = NoTxns
    /\ accounts = <<>> /\ chart = NoChart /\ NoBudget
    /\ NoJournal /\ NoImport

LoadTxns ==
    /\ pc = "rows"
    /\ loaded' = load_txns(rows, journal_accounts)
    /\ pc' = "txns"
    /\ UNCHANGED <<rows, chartVars, journalVars, importVars, budgetVars>>

NextLoad == LoadTxns

SpecLoad == InitLoad /\ [][NextLoad]_vars

(***************************************************************************)
(* journal/journal.py: the caches and the balance of an account.           *)
(*                                                                         *)
(* A dict is a function on the set of its keys.                            *)
(***************************************************************************)
Balance(date, account, statement_balance) ==
    [date |-> date, account |-> account, statement_balance |-> statement_balance]

\* list.sort / sorted: a stable sort; Before(a, b) holds when the key of a is
\* smaller than the key of b.
sorted(s, Before(_, _)) ==
    The({ LET n == Len(v)
              rank(i) == Cardinality({j \in 1..n :
                              \/ Before(v[j], v[i])
                              \/ (~Before(v[i], v[j]) /\ j < i)})
          IN  [q \in 1..n |-> v[CHOOSE i \in 1..n : rank(i) = q - 1]]
        : v \in {s} })

all_postings(ts) == Concat([k \in 1..Len(ts) |-> ts[k].postings])

postings_by_account(ts) ==
    The({ [n \in {ps[i].account.number : i \in 1..Len(ps)} |->
              SelectSeq(ps, LAMBDA x : x.account.number = n)]
        : ps \in {sorted(all_postings(ts),
                     LAMBDA a, b : \/ a.account.number < b.account.number
                                   \/ /\ a.account.number = b.account.number
                                      /\ a.date < b.date)} })

PostingKey(x, use_statement_date) ==
    IF use_statement_date THEN x.statement_date ELSE x.date

\* The groupby loop over the postings of one account: one (date, running
\* total) pair per run of equal dates.
\* One round of the loop: the run of postings of the date of value[i], its
\* last index and the total after it.
group_total(value, use_statement_date, i, total) ==
    The({ [dt |-> PostingKey(value[i], use_statement_date), last |-> j,
           total |-> total + SumSeq([k \in 1..(j - i + 1) |-> value[i + k - 1].amount])]
        : j \in {j \in i..Len(value) :
              /\ \A k \in i..j : PostingKey(value[k], use_statement_date)
                                    = PostingKey(value[i], use_statement_date)
              /\ j = Len(value)
                 \/ PostingKey(value[j + 1], use_statement_date)
                      # PostingKey(value[i], use_statement_date)} })

RECURSIVE running_totals_from(_, _, _, _, _)
running_totals_from(value, use_statement_date, i, total, out) ==
    IF i > Len(value) THEN out
    ELSE The({ running_totals_from(value, use_statement_date, g.last + 1, g.total,
                                   Append(out, <<g.dt, g.total>>))
             : g \in {group_total(value, use_statement_date, i, total)} })

running_totals(value, use_statement_date, i, total, out) ==
    The({running_totals_from(v, use_statement_date, i, total, out) : v \in {value}})

\* Mutant: the totals of the dates are not accumulated.
account_balance_cache_not_running(by_account) ==
    [n \in DOMAIN by_account |->
        LET all == running_totals(by_account[n], FALSE, 1, 0, <<>>)
        IN  [k \in 1..Len(all) |->
               <<all[k][1], all[k][2] - (IF k = 1 THEN 0 ELSE all[k - 1][2])>>]]

account_balance_cache(by_account) ==
    [n \in DOMAIN by_account |-> running_totals(by_account[n], FALSE, 1, 0, <<>>)]

account_st_balance_cache(by_account) ==
    [n \in DOMAIN by_account |->
        running_totals(sorted(by_account[n],
                              LAMBDA a, b : a.statement_date < b.statement_date),
                       TRUE, 1, 0, <<>>)]

assertion_by_account(bals) ==
    The({ [n \in {assertions[i].account.number : i \in 1..Len(assertions)} |->
              SelectSeq(assertions, LAMBDA x : x.account.number = n)]
        : assertions \in {sorted(bals,
                             LAMBDA a, b : \/ a.account.number < b.account.number
                                           \/ /\ a.account.number = b.account.number
                                              /\ a.date < b.date)} })

\* dict([(t.id, t) for t in self.txns]): the last transaction of an id.
txns_by_id(ts) ==
    [n \in {ts[k].id : k \in 1..Len(ts)} |->
        ts[CHOOSE k \in 1..Len(ts) : ts[k].id = n /\ \A j \in (k + 1)..Len(ts) : ts[j].id # n]]

init_txns_cache(ts, bals) ==
    The({ [txns_by_id |-> txns_by_id(ts),
           postings_by_account |-> by_account,
           account_balance |-> account_balance_cache(by_account),
           account_st_balance |-> account_st_balance_cache(by_account),
           assertion_by_account |-> assertion_by_account(bals)]
        : by_account \in {postings_by_account(ts)} })

\* bisect.bisect_right on a list of (date, total) pairs, by the date.
RECURSIVE bisect_right(_, _, _, _)
bisect_right(a, x, lo, hi) ==
    IF lo < hi
    THEN LET mid == (lo + hi) \div 2
         IN  IF x < a[mid + 1][1] THEN bisect_right(a, x, lo, mid)
             ELSE bisect_right(a, x, mid + 1, hi)
    ELSE lo

\* The part of one account in account_balance, d being the dict of the date
\* basis.
account_total(d, a, dt) ==
    IF a.number \notin DOMAIN d THEN 0
    ELSE The({ IF idx # 0 THEN d[a.number][idx][2] ELSE 0
             : idx \in {bisect_right(d[a.number], dt, 0, Len(d[a.number]))} })

account_balance(c, account, dt, use_statement_date, include_subaccounts) ==
    The({ SumSeq([i \in 1..Len(accs) |-> account_total(d, accs[i], dt)])
        : d \in {IF use_statement_date THEN c.account_st_balance
                  ELSE c.account_balance},
          accs \in {IF ~include_subaccounts THEN <<account>>
                     ELSE get_account_and_descendants(JournalChart.others, account)} })

\* Journal.add_txns on a journal with transactions ts: the ids follow the
\* largest id of the journal.  pid is the identity of the new objects.
MaxOf(S) == CHOOSE m \in S : \A x \in S : x <= m

\* Mutant: the ids follow the number of transactions of the journal.
renumbered_from_count(ts, new_txns) ==
    [k \in 1..Len(new_txns) |-> [new_txns[k] EXCEPT !.id = Len(ts) + k]]

renumbered(ts, new_txns) ==
    LET next_id == MaxOf({ts[k].id : k \in 1..Len(ts)}) + 1
    IN  [k \in 1..Len(new_txns) |-> [new_txns[k] EXCEPT !.id = next_id + k - 1]]

(***************************************************************************)
(* The transactions of the journals of the model.  A shape gives the date, *)
(* the account, the amount and the statement date of the first posting of  *)
(* a transaction; the second posting puts the opposite amount on Expenses  *)
(* on the same date.                                                       *)
(***************************************************************************)
Shape(date, account, amount, statement_date) ==
    [date |-> date, account |-> account, amount |-> amount,
     statement_date |-> statement_date]

get_account_by_ident(name) == account_by_id(journal_accounts, name)

\* The transaction of a shape, its postings being the objects pid and pid + 1.
ShapeTxn(txn_id, pid, sh) ==
    Txn(txn_id,
        << Posting(pid, sh.date, get_account_by_ident(sh.account), sh.amount,
                   NoText, sh.statement_date, NoText, NoText),
           Posting(pid + 1, sh.date, get_account_by_ident("Expenses"), -sh.amount,
                   NoText, sh.date, NoText, NoText) >>)

\* The transactions of a loaded file: ids and objects in file order.
ShapeTxns(shapes) == [k \in 1..Len(shapes) |-> ShapeTxn(k, 2 * k - 1, shapes[k])]

NextPid == 1 + MaxOf({0} \cup {all_postings(txns)[i].pid : i \in 1..Len(all_postings(txns))})

MaxTxns == 2

(***************************************************************************)
(* The balance component: a loaded journal without checkpoints, to which   *)
(* transactions are added and whose balances are queried.                  *)
(***************************************************************************)
\* Deposits of 5 clear on their date, withdrawals of 2 on the next day.
BalanceShapes ==
    {Shape(d, a, 5, d) : d \in {1, 3}, a \in {"Chequing", "Project North"}}
    \cup {Shape(d, a, -2, d + 1) : d \in {1, 3}, a \in {"Chequing", "Project North"}}

QueryAccounts == {"Assets", "Chequing"}
QueryDates == 0..4

InitBalance ==
    /\ pc = "journal"
    /\ \E shapes \in SeqUpTo(BalanceShapes, MaxTxns - 1) : txns = ShapeTxns(shapes)
    /\ balance_assertions = <<>>
    /\ cache = init_txns_cache(txns, balance_assertions)
    /\ result = NoResult
    /\ accounts = <<>> /\ chart = NoChart /\ NoBudget /\ rows = <<>> /\ loaded = NoTxns
    /\ NoImport

\* Journal.add_txns([t]); max() of an empty list raises ValueError.
AddTxns(Shapes) ==
    /\ pc = "journal"
    /\ Len(txns) < MaxTxns
    /\ \E sh \in Shapes :
          IF txns = <<>>
          THEN /\ result' = [op |-> "add_txns", status |-> "ValueError"]
               /\ UNCHANGED <<txns, cache>>
          ELSE /\ txns' = txns \o renumbered(txns, <<ShapeTxn(0, NextPid, sh)>>)
               /\ cache' = init_txns_cache(txns', balance_assertions)
               /\ result' = [op |-> "add_txns", status |-> "ok"]
    /\ UNCHANGED <<pc, balance_assertions, chartVars, loadVars, importVars, budgetVars>>

AccountBalance ==
    /\ pc = "journal"
    /\ \E name \in QueryAccounts, dt \in QueryDates,
          use_statement_date \in BOOLEAN, include_subaccounts \in BOOLEAN :
          result' = [op |-> "account_balance", status |-> "ok",
                     account |-> name, dt |-> dt,
                     use_statement_date |-> use_statement_date,
                     include_subaccounts |-> include_subaccounts,
                     value |-> account_balance(cache, get_account_by_ident(name), dt,
                                               use_statement_date, include_subaccounts)]
    /\ UNCHANGED <<pc, txns, balance_assertions, cache, chartVars, loadVars, importVars, budgetVars>>

NextBalance == AddTxns(BalanceShapes) \/ AccountBalance

SpecBalance == InitBalance /\ [][NextBalance]_vars

(***************************************************************************)
(* journal/journal.py: verify_balances, sort_data and auto_statement_date. *)
(***************************************************************************)
ByDateAndNumber(a, b) ==
    \/ a.date < b.date
    \/ a.date = b.date /\ a.account.number < b.account.number

\* Mutant: the checkpoints are compared with the balance by transaction date.
verify_balances_by_txn_date(c, bals) ==
    The({ LET failing == {k \in 1..Len(bs) : amounts[k] # bs[k].statement_balance}
          IN  IF failing = {} THEN [op |-> "verify_balances", status |-> "ok"]
              ELSE LET k == CHOOSE k \in failing : \A j \in failing : k <= j
                   IN  [op |-> "verify_balances", status |-> "BalanceAssertionFailed",
                        date |-> bs[k].date, account |-> bs[k].account.identifier,
                        statement_balance |-> bs[k].statement_balance,
                        txnAmount |-> amounts[k]]
        : bs \in {sorted(bals, ByDateAndNumber)},
          amounts \in {The({ [k \in 1..Len(bs) |->
                                 account_balance(c, bs[k].account, bs[k].date, FALSE, TRUE)]
                           : bs \in {sorted(bals, ByDateAndNumber)} })} })

\* What verify_balances returns (status ok) or raises.
verify_balances(c, bals) ==
    The({ LET failing == {k \in 1..Len(bs) : amounts[k] # bs[k].statement_balance}
          IN  IF failing = {} THEN [op |-> "verify_balances", status |-> "ok"]
              ELSE LET k == CHOOSE k \in failing : \A j \in failing : k <= j
                   IN  [op |-> "verify_balances", status |-> "BalanceAssertionFailed",
                        date |-> bs[k].date, account |-> bs[k].account.identifier,
                        statement_balance |-> bs[k].statement_balance,
                        txnAmount |-> amounts[k]]
        : bs \in {sorted(bals, ByDateAndNumber)},
          amounts \in {The({ [k \in 1..Len(bs) |->
                                 account_balance(c, bs[k].account, bs[k].date, TRUE, TRUE)]
                           : bs \in {sorted(bals, ByDateAndNumber)} })} })

\* sort_data on the transactions.
sort_txns(ts) ==
    sorted([k \in 1..Len(ts) |->
              [ts[k] EXCEPT !.postings = sorted(@, ByDateAndNumber)]],
               LAMBDA t, u :
                 \/ ByDateAndNumber(t.postings[1], u.postings[1])
                 \/ /\ t.postings[1].date = u.postings[1].date
                    /\ t.postings[1].account.number = u.postings[1].account.number
                    /\ t.id < u.id)

\* Mutant: the inner loop over the previous subsets is left out, only single
\* postings are tried.
subset_sum_extend_skipped(postings, target, i, j, len_previous, previous) ==
    [status |-> "next", xs |-> <<>>, previous |-> previous]

\* subset_sum: the indices of the first subset found, in the order the loops
\* build the subsets; status is "empty" for [], "None" for None.
RECURSIVE subset_sum_extend(_, _, _, _, _, _)
subset_sum_extend(postings, target, i, j, len_previous, previous) ==
    IF j > len_previous THEN [status |-> "next", xs |-> <<>>, previous |-> previous]
    ELSE The({ IF SumSeq([k \in 1..Len(xs) |-> postings[xs[k]].amount]) = target
               THEN [status |-> "found", xs |-> xs, previous |-> previous]
               ELSE The({ subset_sum_extend(postings, target, i, j + 1, len_previous, longer)
                        : longer \in {Append(previous, xs)} })
             : xs \in {Append(previous[j], i)} })

RECURSIVE subset_sum_loop(_, _, _, _)
subset_sum_loop(postings, target, i, previous) ==
    IF i > Len(postings) THEN [status |-> "None", xs |-> <<>>]
    ELSE IF postings[i].amount = target THEN [status |-> "found", xs |-> <<i>>]
    ELSE The({ IF r.status = "found" THEN [status |-> "found", xs |-> r.xs]
               ELSE subset_sum_loop(postings, target, i + 1, r.previous)
             : r \in {subset_sum_extend(postings, target, i, 1, Len(previous),
                                        Append(previous, <<i>>))} })

subset_sum(postings, target) ==
    IF target = 0 THEN [status |-> "empty", xs |-> <<>>]
    ELSE The({ subset_sum_loop(ps, t, 1, <<>>) : ps \in {postings}, t \in {target} })

\* config.auto_statement_date: the accounts (Chequing and Project North, by
\* number, as Account.__eq__ compares) and the days limit.
auto_statement_date_accounts == {1001, 1002}

dayslimit == 7

\* The posting object pid as it is now in the transactions ts.
posting_by_pid(ts, pid) ==
    LET ps == all_postings(ts)
    IN  ps[CHOOSE i \in 1..Len(ps) : ps[i].pid = pid]

\* The filter of auto_statement_date_find_ps.
candidate_postings(live, B) ==
    SelectSeq(live, LAMBDA x : /\ x.date <= B.date
                               /\ x.statement_date <= B.date
                               /\ x.date >= B.date - dayslimit)

\* The posting objects of the account of B and of its descendants that the
\* cache c lists, as they are now in the transactions ts.
cached_postings(c, ts, B) ==
    The({ [i \in 1..Len(cached) |-> posting_by_pid(ts, cached[i].pid)]
        : cached \in {The({ Concat([i \in 1..Len(accs) |->
                                IF accs[i].number \in DOMAIN c.postings_by_account
                                THEN c.postings_by_account[accs[i].number]
                                ELSE <<>>])
                          : accs \in {get_account_and_descendants(JournalChart.others,
                                                                   B.account)} })} })

\* auto_statement_date_find_ps: c holds the caches, whose lists hold the
\* posting objects of the transactions ts.  Gives the pids of the postings to
\* update, none when the balance is met or no subset is found.
auto_statement_date_find_ps(c, ts, B) ==
    The({ IF txnAmount = B.statement_balance THEN <<>>
          ELSE The({ The({ [k \in 1..Len(update_pos.xs) |-> ps[update_pos.xs[k]].pid]
                         : update_pos \in {subset_sum(ps, txnAmount - B.statement_balance)} })
                   : ps \in {sorted(candidate_postings(cached_postings(c, ts, B), B),
                                    LAMBDA a, b : a.date > b.date)} })
        : txnAmount \in {account_balance(c, B.account, B.date, TRUE, TRUE)} })

\* Mutant: the postings get the date of the checkpoint.
set_statement_dates_same_day(ts, update_ps, b) ==
    [k \in 1..Len(ts) |->
        [ts[k] EXCEPT !.postings =
            [i \in 1..Len(@) |->
                IF @[i].pid \in Range(update_ps)
                THEN [@[i] EXCEPT !.statement_date = b.date]
                ELSE @[i]]]]

\* p.statement_date = b.date + 1 day for the postings of update_ps.
set_statement_dates(ts, update_ps, b) ==
    [k \in 1..Len(ts) |->
        [ts[k] EXCEPT !.postings =
            [i \in 1..Len(@) |->
                IF @[i].pid \in Range(update_ps)
                THEN [@[i] EXCEPT !.statement_date = b.date + 1]
                ELSE @[i]]]]

\* One round of the loop of auto_statement_date, on the balance assertion b.
\* st holds the transactions, the postings modified so far and, for each
\* checkpoint of a configured account met so far, the transactions as they
\* were when it was reached and the postings selected for it.
auto_statement_date_round(c, st, b) ==
    IF b.account.number \notin auto_statement_date_accounts THEN st
    ELSE The({ [txns |-> IF update_ps # <<>>
                         THEN set_statement_dates(st.txns, update_ps, b)
                         ELSE st.txns,
                ps |-> st.ps \o update_ps,
                steps |-> Append(st.steps, [b |-> b, before |-> st.txns,
                                            selected |-> update_ps])]
             : update_ps \in {auto_statement_date_find_ps(c, st.txns, b)} })

\* The loop of auto_statement_date over the sorted balance assertions, the
\* caches c being those of the start of the call.
RECURSIVE auto_statement_date_loop(_, _, _, _)
auto_statement_date_loop(c, st, bals, i) ==
    IF i > Len(bals) THEN st
    ELSE The({ auto_statement_date_loop(c, next, bals, i + 1)
             : next \in {auto_statement_date_round(c, st, bals[i])} })

\* config.auto_balance.accounts: the identifier of the account to balance
\* against, by the number of the account to balance (Chequing and Project
\* North against Income).
auto_balance_accounts == (1001 :> "Income") @@ (1002 :> "Income")

\* The identity of the next new posting object of the transactions ts.
next_pid(ts) ==
    1 + MaxOf({0} \cup {all_postings(ts)[i].pid : i \in 1..Len(all_postings(ts))})

\* Mutant: a plug is made even when the balance is met.
auto_balance_with_new_txn_always(c, b, snd_account, pid) ==
    The({ [status |-> "txn",
           t |-> Txn(None,
                   << Posting(pid, b.date, b.account, b.statement_balance - txnAmount,
                              NoText, b.date, NoText, NoText),
                      Posting(pid + 1, b.date, snd_account,
                              -(b.statement_balance - txnAmount),
                              NoText, b.date, NoText, NoText) >>)]
        : txnAmount \in {account_balance(c, b.account, b.date, TRUE, TRUE)} })

\* auto_balance_with_new_txn: None when the balance is met, else the
\* transaction to add, its postings being the new objects pid and pid + 1.
auto_balance_with_new_txn(c, b, snd_account, pid) ==
    The({ IF txnAmount = b.statement_balance THEN [status |-> "None"]
          ELSE [status |-> "txn",
                t |-> Txn(None,
                        << Posting(pid, b.date, b.account, b.statement_balance - txnAmount,
                                   NoText, b.date, NoText, NoText),
                           Posting(pid + 1, b.date, snd_account,
                                   -(b.statement_balance - txnAmount),
                                   NoText, b.date, NoText, NoText) >>)]
        : txnAmount \in {account_balance(c, b.account, b.date, TRUE, TRUE)} })

\* One round of the loop of auto_balance, on the balance assertion b of the
\* journal with the balance assertions all_bals.  st holds the transactions
\* and the caches of the journal, the transactions added so far, for each
\* checkpoint of a configured account the transactions as they were when it
\* was reached and what auto_balance_with_new_txn gave, and the exception
\* raised, if any: add_txns raises ValueError on a journal without
\* transactions.
auto_balance_round(st, all_bals, b) ==
    IF st.status # "ok" \/ b.account.number \notin DOMAIN auto_balance_accounts THEN st
    ELSE The({ LET step == [b |-> b, before |-> st.txns, new |-> r]
               IN  IF r.status = "None"
                   THEN [st EXCEPT !.steps = Append(@, step)]
                   ELSE IF st.txns = <<>>
                   THEN [st EXCEPT !.steps = Append(@, step), !.status = "ValueError"]
                   ELSE The({ [txns |-> st.txns \o added,
                               cache |-> init_txns_cache(st.txns \o added, all_bals),
                               out |-> st.out \o added, steps |-> Append(st.steps, step),
                               status |-> "ok"]
                            : added \in {renumbered(st.txns, <<r.t>>)} })
             : r \in {auto_balance_with_new_txn(st.cache, b,
                          get_account_by_ident(auto_balance_accounts[b.account.number]),
                          next_pid(st.txns))} })

\* The loop of auto_balance over the sorted copy of the balance assertions.
RECURSIVE auto_balance_loop(_, _, _, _)
auto_balance_loop(st, all_bals, bals, i) ==
    IF i > Len(bals) THEN st
    ELSE The({ auto_balance_loop(next, all_bals, bals, i + 1)
             : next \in {auto_balance_round(st, all_bals, bals[i])} })

auto_balance(ts, c, all_bals) ==
    The({ auto_balance_loop([txns |-> ts, cache |-> c, out |-> <<>>, steps |-> <<>>,
                             status |-> "ok"], all_bals, bals, 1)
        : bals \in {sorted(all_bals, ByDateAndNumber)} })

MaxBalances == 2

(***************************************************************************)
(* The journal component: a loaded journal with checkpoints, on which      *)
(* verify_balances and auto_statement_date are called.                     *)
(***************************************************************************)
JournalShapes ==
    {Shape(1, "Chequing", 3, 1), Shape(8, "Chequing", 3, 8),
     Shape(8, "Project North", 3, 8), Shape(8, "Project North", 5, 8)}

JournalBalances ==
    {Balance(8, get_account_by_ident("Chequing"), 0),
     Balance(8, get_account_by_ident("Chequing"), 5),
     Balance(8, get_account_by_ident("Project North"), 3),
     Balance(9, get_account_by_ident("Chequing"), 5),
     Balance(9, get_account_by_ident("Assets"), 8)}

InitJournal ==
    /\ pc = "journal"
    /\ \E shapes \in SeqUpTo(JournalShapes, MaxTxns) : txns = ShapeTxns(shapes)
    /\ balance_assertions \in SeqUpTo(JournalBalances, MaxBalances)
    /\ cache = init_txns_cache(txns, balance_assertions)
    /\ result = NoResult
    /\ accounts = <<>> /\ chart = NoChart /\ NoBudget /\ rows = <<>> /\ loaded = NoTxns
    /\ NoImport

VerifyBalances ==
    /\ pc = "journal"
    /\ result' = verify_balances(cache, balance_assertions)
    /\ UNCHANGED <<pc, txns, balance_assertions, cache, chartVars, loadVars, importVars, budgetVars>>

AutoStatementDate ==
    /\ pc = "journal"
    /\ \E bals \in {sorted(balance_assertions, ByDateAndNumber)}, ts \in {sort_txns(txns)} :
       \E r \in {auto_statement_date_loop(cache,
                      [txns |-> ts, ps |-> <<>>, steps |-> <<>>], bals, 1)} :
           /\ txns' = r.txns
           /\ balance_assertions' = bals
           /\ cache' = init_txns_cache(r.txns, bals)
           /\ result' = [op |-> "auto_statement_date", status |-> "ok",
                         value |-> [k \in 1..Len(r.ps) |-> posting_by_pid(r.txns, r.ps[k])],
                         steps |-> r.steps]
    /\ UNCHANGED <<pc, chartVars, loadVars, importVars, budgetVars>>

NextJournal == VerifyBalances \/ AutoStatementDate

SpecJournal == InitJournal /\ [][NextJournal]_vars

(***************************************************************************)
(* The alignment component: journals with an old deposit, out of the days  *)
(* limit of the checkpoints of day 9, and a deposit or a withdrawal of 3   *)
(* on day 8, on Chequing or on Project North.                              *)
(***************************************************************************)
AlignShapes ==
    {Shape(1, "Chequing", 4, 1), Shape(1, "Chequing", 10, 1),
     Shape(8, "Chequing", 3, 8), Shape(8, "Chequing", -3, 8),
     Shape(8, "Project North", -3, 8)}

AlignBalances ==
    {Balance(9, get_account_by_ident("Chequing"), 10),
     Balance(9, get_account_by_ident("Chequing"), 7),
     Balance(9, get_account_by_ident("Project North"), 0)}

InitAlign ==
    /\ pc = "journal"
    /\ \E shapes \in SeqUpTo(AlignShapes, MaxTxns) : txns = ShapeTxns(shapes)
    /\ balance_assertions \in SeqUpTo(AlignBalances, MaxBalances)
    /\ cache = init_txns_cache(txns, balance_assertions)
    /\ result = NoResult
    /\ accounts = <<>> /\ chart = NoChart /\ NoBudget /\ rows = <<>> /\ loaded = NoTxns
    /\ NoImport

\* Journal.auto_balance(), on a journal of the size a load gives.
AutoBalance ==
    /\ pc = "journal"
    /\ Len(txns) <= MaxTxns
    /\ \E r \in {auto_balance(txns, cache, balance_assertions)} :
          /\ txns' = r.txns
          /\ cache' = r.cache
          /\ result' = [op |-> "auto_balance", status |-> r.status, value |-> r.out,
                        steps |-> r.steps]
    /\ UNCHANGED <<pc, balance_assertions, chartVars, loadVars, importVars, budgetVars>>

NextAlign == VerifyBalances \/ AutoStatementDate

(***************************************************************************)
(* The plug component: the journals of the journal component, on which     *)
(* verify_balances and auto_balance are called.                            *)
(***************************************************************************)
NextPlug == VerifyBalances \/ AutoBalance

SpecPlug == InitJournal /\ [][NextPlug]_vars

SpecAlign == InitAlign /\ [][NextAlign]_vars

\* The journal on which both repairs are called: each checkpoint is met by
\* some of the transactions and missed by others.
RepairShapes ==
    {Shape(1, "Chequing", 3, 1), Shape(8, "Chequing", 3, 8),
     Shape(8, "Project North", 5, 8)}

RepairBalances ==
    {Balance(8, get_account_by_ident("Chequing"), 3),
     Balance(8, get_account_by_ident("Project North"), 5),
     Balance(9, get_account_by_ident("Chequing"), 8)}

InitRepair ==
    /\ pc = "journal"
    /\ \E shapes \in SeqUpTo(RepairShapes, MaxTxns) : txns = ShapeTxns(shapes)
    /\ balance_assertions \in SeqUpTo(RepairBalances, MaxBalances)
    /\ cache = init_txns_cache(txns, balance_assertions)
    /\ result = NoResult
    /\ accounts = <<>> /\ chart = NoChart /\ NoBudget /\ rows = <<>> /\ loaded = NoTxns
    /\ NoImport

NextRepair == VerifyBalances \/ AutoStatementDate \/ AutoBalance

SpecRepair == InitRepair /\ [][NextRepair]_vars

(***************************************************************************)
(* The journal to which transactions and checkpoints are added and on      *)
(* which both repairs are called.                                          *)
(***************************************************************************)
IndexShapes == {Shape(8, "Chequing", 3, 8), Shape(8, "Project North", 5, 8)}

IndexBalances ==
    {Balance(8, get_account_by_ident("Chequing"), 5),
     Balance(8, get_account_by_ident("Project North"), 3),
     Balance(9, get_account_by_ident("Chequing"), 5)}

InitIndex ==
    /\ pc = "journal"
    /\ \E shapes \in SeqUpTo(IndexShapes, MaxTxns - 1) : txns = ShapeTxns(shapes)
    /\ balance_assertions \in SeqUpTo(IndexBalances, MaxBalances - 1)
    /\ cache = init_txns_cache(txns, balance_assertions)
    /\ result = NoResult
    /\ accounts = <<>> /\ chart = NoChart /\ NoBudget /\ rows = <<>> /\ loaded = NoTxns
    /\ NoImport

\* Mutant: the caches are not rebuilt.
AddBalancesStale ==
    /\ pc = "journal"
    /\ Len(balance_assertions) < MaxBalances
    /\ \E b \in IndexBalances :
          /\ balance_assertions' = balance_assertions \o <<b>>
          /\ result' = [op |-> "add_balances", status |-> "ok", added |-> b,
                        before |-> balance_assertions]
    /\ UNCHANGED <<pc, txns, cache, chartVars, loadVars, importVars, budgetVars>>

\* Journal.add_balances([b]).
AddBalances ==
    /\ pc = "journal"
    /\ Len(balance_assertions) < MaxBalances
    /\ \E b \in IndexBalances :
          /\ balance_assertions' = balance_assertions \o <<b>>
          /\ cache' = init_txns_cache(txns, balance_assertions')
          /\ result' = [op |-> "add_balances", status |-> "ok", added |-> b,
                        before |-> balance_assertions]
    /\ UNCHANGED <<pc, txns, chartVars, loadVars, importVars, budgetVars>>

NextIndex == AddTxns(IndexShapes) \/ AddBalances \/ AutoBalance \/ AutoStatementDate

SpecIndex == InitIndex /\ [][NextIndex]_vars

(***************************************************************************)
(* journal/autoimport.py: classification rules and classify.               *)
(*                                                                         *)
(* An optional amount is a sequence: <<>> is None and <<a>> is the amount  *)
(* a, so that the amount 0 and None stay different values.                 *)
(***************************************************************************)
NoAmount == <<>>

\* bool(x) of an optional amount: None and 0 are falsy.
amount_is_truthy(x) == x # NoAmount /\ x[1] # 0

ClassificationRule(match_date, match_amnt, match_account, match_statement_description, match_payee, second_account, payee, comment) ==
    [match_date |-> match_date, match_amnt |-> match_amnt,
     match_account |-> match_account,
     match_statement_description |-> match_statement_description,
     match_payee |-> match_payee, second_account |-> second_account,
     payee |-> payee, comment |-> comment]

\* re.match(pattern, string) for a pattern of plain letters: the pattern is
\* matched at the start of the string, the string may go on after it.
re_match(pattern, string) ==
    /\ Len(pattern) <= Len(string)
    /\ \A i \in 1..Len(pattern) : string[i] = pattern[i]

\* The letters of the identifier of an account.
identifier_letters(identifier) ==
    CASE identifier = "Chequing" -> <<"C", "h", "e", "q", "u", "i", "n", "g">>
      [] OTHER -> <<identifier>>

\* The body of the loop over the rules: no test sends the loop to the next
\* rule.
rule_matches(rule, p) ==
    /\ ~(rule.match_date[1] # NoDate /\ p.date < rule.match_date[1])
    /\ ~(rule.match_date[2] # NoDate /\ p.date > rule.match_date[2])
    /\ ~(amount_is_truthy(rule.match_amnt[1]) /\ p.amount < rule.match_amnt[1][1])
    /\ ~(amount_is_truthy(rule.match_amnt[2]) /\ p.amount > rule.match_amnt[2][1])
    /\ ~(/\ rule.match_account # NoText
         /\ ~re_match(rule.match_account, identifier_letters(p.account.identifier)))
    /\ ~(/\ rule.match_statement_description # NoText
         /\ \/ p.statement_description = NoText
            \/ ~re_match(rule.match_statement_description, p.statement_description))
    /\ ~(/\ rule.match_payee # NoText
         /\ (p.payee = NoText \/ ~re_match(rule.match_payee, p.payee)))

\* The loop over the rules: the index of the first rule that matches, 0 when
\* r stays None.
first_matching_rule(rules, p) ==
    LET matching == {i \in 1..Len(rules) : rule_matches(rules[i], p)}
    IN  IF matching = {} THEN 0 ELSE CHOOSE i \in matching : \A j \in matching : i <= j

\* Mutant: the second posting carries the amount of the first.
new_txn_same_amount(p, acc2, payee, comment, pid) ==
    Txn(None,
        << Posting(pid, p.date, p.account, p.amount, payee, p.statement_date,
                   p.statement_description, comment),
           Posting(pid + 1, p.date, acc2, p.amount, payee, p.statement_date,
                   p.statement_description, comment) >>)

\* The transaction classify builds for p; its postings are the new objects
\* pid and pid + 1.
new_txn(p, acc2, payee, comment, pid) ==
    Txn(None,
        << Posting(pid, p.date, p.account, p.amount, payee, p.statement_date,
                   p.statement_description, comment),
           Posting(pid + 1, p.date, acc2, -p.amount, payee, p.statement_date,
                   p.statement_description, comment) >>)

RECURSIVE classify_loop(_, _, _, _, _, _)
classify_loop(ps, rules, default_snd_account, i, pid, ls) ==
    IF i > Len(ps) THEN ls
    ELSE LET p == ps[i]
             k == first_matching_rule(rules, p)
         IN  IF k = 0
             THEN classify_loop(ps, rules, default_snd_account, i + 1, pid + 2,
                      Append(ls, <<FALSE, new_txn(p, default_snd_account, p.payee,
                                                  NoText, pid)>>))
             ELSE IF rules[k].second_account = NoAccount
             THEN classify_loop(ps, rules, default_snd_account, i + 1, pid, ls)
             ELSE classify_loop(ps, rules, default_snd_account, i + 1, pid + 2,
                      Append(ls, <<TRUE,
                          new_txn(p, rules[k].second_account,
                                  IF rules[k].payee # NoText THEN rules[k].payee
                                                             ELSE p.payee,
                                  IF rules[k].comment # NoText THEN rules[k].comment
                                                               ELSE NoText,
                                  pid)>>))

classify(ps, rules, default_snd_account) ==
    classify_loop(ps, rules, default_snd_account, 1,
                  1 + MaxOf({0} \cup {ps[i].pid : i \in 1..Len(ps)}), <<>>)

(***************************************************************************)
(* The classification component: postings of the bank account and rules    *)
(* are drawn from bounded sets and classify runs on them.                  *)
(***************************************************************************)
MaxPostings == 2
MaxRules == 2

ImportConfig(import_zero_amount) ==
    [account |-> get_account_by_ident("Chequing"),
     default_snd_account |-> get_account_by_ident("Equity"),
     import_zero_amount |-> import_zero_amount]

\* The postings a bank file gives: dates 1 and 3; 4 with a description, -5
\* and 9 without.
RawShapes ==
    {[date |-> d, amount |-> a,
      statement_description |-> IF a = 4 THEN <<"a", "b">> ELSE NoText]
       : d \in {1, 3}, a \in {-5, 4, 9}}

\* The posting objects of a list of shapes, in file order.
RawPostings(shapes) ==
    [i \in 1..Len(shapes) |->
        Posting(i, shapes[i].date, get_account_by_ident("Chequing"), shapes[i].amount,
                NoText, shapes[i].date, shapes[i].statement_description, NoText)]

NoBounds == <<NoDate, NoDate>>
NoAmounts == <<NoAmount, NoAmount>>

RulePool ==
    { ClassificationRule(NoBounds, <<<<3>>, <<5>>>>, NoText, NoText, NoText,
                         get_account_by_ident("Expenses"), NoText, NoText),
      ClassificationRule(NoBounds, <<<<0>>, NoAmount>>, NoText, NoText, NoText,
                         get_account_by_ident("Income"), NoText, NoText),
      ClassificationRule(NoBounds, <<<<-5>>, <<-5>>>>, NoText, NoText, NoText,
                         get_account_by_ident("Expenses"), <<"p">>, <<"c">>),
      ClassificationRule(<<2, NoDate>>, NoAmounts, NoText, NoText, NoText,
                         NoAccount, NoText, NoText),
      ClassificationRule(<<NoDate, 1>>, NoAmounts, NoText, NoText, NoText,
                         get_account_by_ident("Income"), NoText, NoText),
      ClassificationRule(NoBounds, NoAmounts, NoText, <<"a">>, NoText,
                         get_account_by_ident("Income"), NoText, NoText),
      ClassificationRule(NoBounds, NoAmounts, NoText, <<"a", "b">>, NoText,
                         get_account_by_ident("Expenses"), NoText, NoText),
      ClassificationRule(NoBounds, NoAmounts, <<"C", "h", "e", "q">>, NoText, NoText,
                         get_account_by_ident("Expenses"), NoText, NoText),
      ClassificationRule(NoBounds, NoAmounts, NoText, NoText, NoText,
                         NoAccount, NoText, NoText) }

InitClassify ==
    /\ pc = "postings"
    /\ \E shapes \in SeqUpTo(RawShapes, MaxPostings) : raw_postings = RawPostings(shapes)
    /\ classification_rules \in SeqUpTo(RulePool, MaxRules)
    /\ import_config = ImportConfig(FALSE)
    /\ bank_rows = <<>> /\ from_date = NoDate /\ known_postings = EmptyDict
    /\ accounts = <<>> /\ chart = NoChart /\ NoBudget /\ rows = <<>> /\ loaded = NoTxns
    /\ NoJournal

Classify ==
    /\ pc = "postings"
    /\ \E ls \in {classify(raw_postings, classification_rules,
                           import_config.default_snd_account)} :
          result' = [op |-> "classify", status |-> "ok", value |-> ls]
    /\ pc' = "classified"
    /\ UNCHANGED <<chartVars, loadVars, txns, balance_assertions, cache, importVars, budgetVars>>

NextClassify == Classify

SpecClassify == InitClassify /\ [][NextClassify]_vars

(***************************************************************************)
(* journal/autoimport.py: import_from_bank_csv, and the dedup keys of      *)
(* journal.py.                                                             *)
(***************************************************************************)
\* Posting.dedup_key: the date, the number of the account, the amount and
\* the statement description.
dedup_key(p) == <<p.date, p.account.number, p.amount, p.statement_description>>

\* Journal.posting_dedup_keys: the number of postings of each key, a dict.
posting_dedup_keys(ts, account, after) ==
    The({ [k \in {dedup_key(sel[i]) : i \in 1..Len(sel)} |->
              Cardinality({i \in 1..Len(sel) : dedup_key(sel[i]) = k})]
        : sel \in {SelectSeq(all_postings(ts),
                       LAMBDA p : /\ ~(account # NoAccount /\ p.account.number # account.number)
                                  /\ ~(after # NoDate /\ p.date <= after))} })

\* A row of the bank file, read with a single amount column; the statement
\* date may be missing.
BankRow(date, amount, statement_date, statement_description, payee) ==
    [date |-> date, amount |-> amount, statement_date |-> statement_date,
     statement_description |-> statement_description, payee |-> payee]

\* import_bank_postings: the posting of the i-th row is the object i.
import_bank_postings(csv_rows, account, import_zero_amount) ==
    LET kept == {i \in 1..Len(csv_rows) : import_zero_amount \/ csv_rows[i].amount # 0}
        row_posting(i) ==
            Posting(i, csv_rows[i].date, account, csv_rows[i].amount, csv_rows[i].payee,
                    IF csv_rows[i].statement_date # NoDate
                    THEN csv_rows[i].statement_date ELSE csv_rows[i].date,
                    csv_rows[i].statement_description, NoText)
        RECURSIVE from(_)
        from(i) == IF i > Len(csv_rows) THEN <<>>
                   ELSE IF i \in kept THEN <<row_posting(i)>> \o from(i + 1)
                   ELSE from(i + 1)
    IN  from(1)

\* Mutant: a known key is never used up.
consume_key_never(keys, k) == keys

\* A posting of key k is skipped: the key loses one occurrence, and leaves
\* the dict with its last one.
consume_key(keys, k) ==
    IF keys[k] = 1 THEN [x \in DOMAIN keys \ {k} |-> keys[x]]
    ELSE [keys EXCEPT ![k] = @ - 1]

\* The filter loop of import_from_bank_csv.
RECURSIVE filter_postings(_, _, _, _, _)
filter_postings(csvPs, cutoff, i, keys, unknownPs) ==
    IF i > Len(csvPs) THEN [keys |-> keys, unknownPs |-> unknownPs]
    ELSE IF cutoff # NoDate /\ csvPs[i].date < cutoff
         THEN filter_postings(csvPs, cutoff, i + 1, keys, unknownPs)
    ELSE IF dedup_key(csvPs[i]) \in DOMAIN keys
         THEN The({ filter_postings(csvPs, cutoff, i + 1, ks, unknownPs)
                  : ks \in {consume_key(keys, dedup_key(csvPs[i]))} })
    ELSE The({ filter_postings(csvPs, cutoff, i + 1, keys, us)
             : us \in {Append(unknownPs, csvPs[i])} })

\* import_from_bank_csv: the list classify returns, with the postings it was
\* handed and the dict of known keys as the call leaves it.
import_from_bank_csv(csv_rows, config, rules, cutoff, known) ==
    The({ [keys |-> f.keys, unknownPs |-> f.unknownPs,
           value |-> classify(f.unknownPs, rules, config.default_snd_account)]
        : f \in {filter_postings(
                    import_bank_postings(csv_rows, config.account,
                                         config.import_zero_amount),
                    cutoff, 1, known, <<>>)} })

(***************************************************************************)
(* The import component: a journal of known transactions, the rows of a    *)
(* bank file of its Chequing account, a date cutoff and rules;             *)
(* import_from_bank_csv runs with the dedup keys of the journal.           *)
(***************************************************************************)
MaxBankRows == 3

ImportShapes == {Shape(d, "Chequing", 4, d) : d \in {1, 3}}

BankRows ==
    { BankRow(1, 4, NoDate, NoText, NoText),
      BankRow(3, 4, NoDate, NoText, NoText),
      BankRow(3, 4, 4, <<"a", "b">>, NoText),
      BankRow(3, 0, NoDate, NoText, NoText) }

ImportRules ==
    { <<>>,
      <<ClassificationRule(<<2, NoDate>>, NoAmounts, NoText, <<"a">>, NoText,
                           NoAccount, NoText, NoText)>> }

InitImport ==
    /\ pc = "bank_rows"
    /\ \E shapes \in SeqUpTo(ImportShapes, MaxTxns) : txns = ShapeTxns(shapes)
    /\ balance_assertions = <<>>
    /\ cache = init_txns_cache(txns, balance_assertions)
    /\ result = NoResult
    /\ bank_rows \in SeqUpTo(BankRows, MaxBankRows)
    /\ \E import_zero_amount \in BOOLEAN : import_config = ImportConfig(import_zero_amount)
    /\ classification_rules \in ImportRules
    /\ from_date \in {NoDate, 3}
    /\ known_postings = posting_dedup_keys(txns, import_config.account, NoDate)
    /\ raw_postings = <<>>
    /\ accounts = <<>> /\ chart = NoChart /\ NoBudget /\ rows = <<>> /\ loaded = NoTxns

ImportFromBankCsv ==
    /\ pc = "bank_rows"
    /\ \E r \in {import_from_bank_csv(bank_rows, import_config, classification_rules,
                                      from_date, known_postings)} :
          /\ known_postings' = r.keys
          /\ result' = [op |-> "import_from_bank_csv", status |-> "ok",
                        unknownPs |-> r.unknownPs, value |-> r.value]
    /\ pc' = "imported"
    /\ UNCHANGED <<chartVars, loadVars, txns, balance_assertions, cache, raw_postings,
                   classification_rules, bank_rows, import_config, from_date, budgetVars>>

NextImport == ImportFromBankCsv

SpecImport == InitImport /\ [][NextImport]_vars

(***************************************************************************)
(* journal/journal.py: auto_import.                                        *)
(***************************************************************************)
\* The test of auto_import on a transaction t of the import: its second
\* posting is on the default second account.
reported_as_unmatched(t, config) ==
    t.postings[2].account.number = config.default_snd_account.number

\* The loop of auto_import over the list xs that import_from_bank_csv
\* returned: an element of xs is a tuple (matched, transaction), and the
\* attribute postings of a tuple raises AttributeError.
auto_import_unmatched(xs, config) ==
    IF xs = <<>> THEN [status |-> "ok", unmatched |-> <<>>]
    ELSE [status |-> "AttributeError", unmatched |-> <<>>]

\* get_latest_balance_assertions(account), then the day after its date.
import_from_date(c, account) ==
    IF account.number \in DOMAIN c.assertion_by_account
    THEN c.assertion_by_account[account.number]
             [Len(c.assertion_by_account[account.number])].date + 1
    ELSE NoDate

\* Journal.auto_import for one folder with one bank file: what it returns
\* or raises, with the list xs and the postings handed to classify.
auto_import(ts, c, bals, csv_rows, config, rules) ==
    IF verify_balances(c, bals).status # "ok"
    THEN [status |-> verify_balances(c, bals).status, value |-> <<>>, unmatched |-> <<>>,
          xs |-> <<>>, unknownPs |-> <<>>]
    ELSE The({ LET rep == auto_import_unmatched(r.value, config)
               IN  IF rep.status # "ok"
                   THEN [status |-> rep.status, value |-> <<>>, unmatched |-> <<>>,
                         xs |-> r.value, unknownPs |-> r.unknownPs]
                   ELSE IF ts = <<>>
                   THEN [status |-> "ValueError", value |-> <<>>, unmatched |-> <<>>,
                         xs |-> r.value, unknownPs |-> r.unknownPs]
                   ELSE [status |-> "ok", value |-> r.value, unmatched |-> rep.unmatched,
                         xs |-> r.value, unknownPs |-> r.unknownPs]
             : r \in {import_from_bank_csv(csv_rows, config, rules,
                          import_from_date(c, config.account),
                          posting_dedup_keys(ts, config.account, NoDate))} })

\* The transactions of the list import_from_bank_csv returned, as new
\* posting objects of the journal ts.
imported_txns(ts, xs) ==
    [k \in 1..Len(xs) |->
        [xs[k][2] EXCEPT !.postings =
            [j \in 1..Len(@) |-> [@[j] EXCEPT !.pid = next_pid(ts) + 2 * (k - 1) + (j - 1)]]]]

(***************************************************************************)
(* The auto import component: a journal, the rows of a bank file and rules *)
(* after their load.  Either auto_import is called, or                     *)
(* import_from_bank_csv, then add_txns on the transactions it returned,    *)
(* then import_from_bank_csv again with the dedup keys of the journal.     *)
(***************************************************************************)
AutoImportRules ==
    { <<>>,
      <<ClassificationRule(NoBounds, NoAmounts, NoText, <<"a">>, NoText,
                           NoAccount, NoText, NoText)>>,
      <<ClassificationRule(NoBounds, NoAmounts, NoText, NoText, NoText,
                           get_account_by_ident("Expenses"), NoText, NoText)>>,
      <<ClassificationRule(NoBounds, NoAmounts, NoText, <<"a">>, NoText,
                           get_account_by_ident("Equity"), NoText, NoText)>> }

InitAutoImport ==
    /\ pc = "bank_rows"
    /\ \E shapes \in SeqUpTo(ImportShapes, MaxTxns - 1) : txns = ShapeTxns(shapes)
    /\ balance_assertions = <<>>
    /\ cache = init_txns_cache(txns, balance_assertions)
    /\ result = NoResult
    /\ bank_rows \in SeqUpTo(BankRows, MaxBankRows)
    /\ \E import_zero_amount \in BOOLEAN : import_config = ImportConfig(import_zero_amount)
    /\ classification_rules \in AutoImportRules
    /\ from_date = NoDate
    /\ known_postings = posting_dedup_keys(txns, import_config.account, NoDate)
    /\ raw_postings = <<>>
    /\ accounts = <<>> /\ chart = NoChart /\ NoBudget /\ rows = <<>> /\ loaded = NoTxns

AutoImport ==
    /\ pc = "bank_rows"
    /\ \E r \in {auto_import(txns, cache, balance_assertions, bank_rows, import_config,
                             classification_rules)} :
          result' = [op |-> "auto_import", status |-> r.status, value |-> r.value,
                     unmatched |-> r.unmatched, xs |-> r.xs, unknownPs |-> r.unknownPs]
    /\ pc' = "auto_imported"
    /\ UNCHANGED <<chartVars, loadVars, txns, balance_assertions, cache, importVars,
                   budgetVars>>

\* Journal.add_txns on the transactions of the import.
AddImported ==
    /\ pc = "imported"
    /\ IF txns = <<>>
       THEN /\ result' = [op |-> "add_txns", status |-> "ValueError",
                          first |-> result.value]
            /\ UNCHANGED <<txns, cache>>
       ELSE /\ txns' = txns \o renumbered(txns, imported_txns(txns, result.value))
            /\ cache' = init_txns_cache(txns', balance_assertions)
            /\ result' = [op |-> "add_txns", status |-> "ok", first |-> result.value]
    /\ pc' = "added"
    /\ UNCHANGED <<balance_assertions, chartVars, loadVars, importVars, budgetVars>>

\* import_from_bank_csv on the same file, with the dedup keys of the journal.
ImportAgain ==
    /\ pc = "added"
    /\ \E r \in {import_from_bank_csv(bank_rows, import_config, classification_rules,
                     from_date, posting_dedup_keys(txns, import_config.account, NoDate))} :
          /\ known_postings' = r.keys
          /\ result' = [op |-> "import_again", status |-> "ok", value |-> r.value,
                        first |-> result.first, added |-> result.status]
    /\ pc' = "imported_again"
    /\ UNCHANGED <<chartVars, loadVars, txns, balance_assertions, cache, raw_postings,
                   classification_rules, bank_rows, import_config, from_date, budgetVars>>

NextAutoImport == AutoImport \/ ImportFromBankCsv \/ AddImported \/ ImportAgain

SpecAutoImport == InitAutoImport /\ [][NextAutoImport]_vars

(***************************************************************************)
(* budget.py: the recurrences, the budget rules and their unrolling.       *)
(***************************************************************************)
Ymd(y, m, d) == 10000 * y + 100 * m + d
YearOf(dt) == dt \div 10000
MonthOf(dt) == (dt \div 100) % 100
DayOf(dt) == dt % 100

IsLeap(y) == y % 4 = 0 /\ (y % 100 # 0 \/ y % 400 = 0)

DaysInMonth(y, m) ==
    IF m = 2 THEN (IF IsLeap(y) THEN 29 ELSE 28)
    ELSE IF m \in {4, 6, 9, 11} THEN 30 ELSE 31

MinOf(a, b) == IF a <= b THEN a ELSE b

\* date + timedelta(days=n), n >= 0.
RECURSIVE add_days(_, _)
add_days(dt, n) ==
    IF n = 0 THEN dt
    ELSE IF DayOf(dt) < DaysInMonth(YearOf(dt), MonthOf(dt)) THEN add_days(dt + 1, n - 1)
    ELSE IF MonthOf(dt) < 12 THEN add_days(Ymd(YearOf(dt), MonthOf(dt) + 1, 1), n - 1)
    ELSE add_days(Ymd(YearOf(dt) + 1, 1, 1), n - 1)

\* date + relativedelta(months=n): the day is cut to the length of the month.
add_months(dt, n) ==
    LET k == MonthOf(dt) - 1 + n
        y == YearOf(dt) + (k \div 12)
        m == (k % 12) + 1
    IN  Ymd(y, m, MinOf(DayOf(dt), DaysInMonth(y, m)))

\* date + relativedelta(years=n).
add_years(dt, n) ==
    Ymd(YearOf(dt) + n, MonthOf(dt),
        MinOf(DayOf(dt), DaysInMonth(YearOf(dt) + n, MonthOf(dt))))

RecurrenceType == {"ONCE", "DAILY", "WEEKLY", "MONTHLY", "YEARLY"}

\* None where a number of times is expected; a number n is <<n>>.
NoTimes == <<>>

Recurrence(rec_type, interval, end_date, end_nb_of_times) ==
    [rec_type |-> rec_type, interval |-> interval, end_date |-> end_date,
     end_nb_of_times |-> end_nb_of_times]

next_date(d, r) ==
    CASE r.rec_type = "ONCE" -> NoDate
      [] r.rec_type = "DAILY" -> add_days(d, r.interval)
      [] r.rec_type = "WEEKLY" -> add_days(d, 7 * r.interval)
      [] r.rec_type = "MONTHLY" -> add_months(d, r.interval)
      [] r.rec_type = "YEARLY" -> add_years(d, r.interval)

\* A call of next_date with the positional arguments args: next_date has
\* two parameters, a call with another number of arguments raises TypeError.
call_next_date(args) ==
    IF Len(args) # 2 THEN [status |-> "TypeError", value |-> NoDate]
    ELSE [status |-> "ok", value |-> next_date(args[1], args[2])]

\* The fields of a BudgetTxnRule, before or after __normalize_end__.
BudgetRule(name, start, amount, recurrence, account) ==
    [name |-> name, start |-> start, amount |-> amount, recurrence |-> recurrence,
     account |-> account]

\* The while loop of date_list, from the date d with the dates so far.
RECURSIVE date_list_loop(_, _, _, _)
date_list_loop(br, d, end2, dates) ==
    IF d <= end2
    THEN LET r == call_next_date(<<d, br.recurrence, br.recurrence.interval>>)
         IN  IF r.status # "ok" THEN [status |-> r.status, dates |-> <<>>]
             ELSE date_list_loop(br, r.value, end2, Append(dates, d))
    ELSE [status |-> "ok", dates |-> dates]

date_list(br, end) ==
    IF br.recurrence.rec_type = "ONCE" THEN [status |-> "ok", dates |-> <<br.start>>]
    ELSE date_list_loop(br, br.start,
                        IF br.recurrence.end_date = NoDate THEN end
                        ELSE MinOf(end, br.recurrence.end_date),
                        <<>>)

\* The for loop of __normalize_end__: n calls of next_date from d.
RECURSIVE advance(_, _, _)
advance(br, d, n) ==
    IF n <= 0 THEN [status |-> "ok", value |-> d]
    ELSE LET r == call_next_date(<<d, br.recurrence, br.recurrence.interval>>)
         IN  IF r.status # "ok" THEN r ELSE advance(br, r.value, n - 1)

\* The second part of __normalize_end__: the end date from the number of times.
normalize_end_date(br) ==
    LET rec == br.recurrence
    IN  IF rec.end_nb_of_times = NoTimes \/ rec.end_nb_of_times = <<0>>
        THEN [status |-> "ok", br |-> br]
        ELSE LET d == advance(br, br.start, rec.end_nb_of_times[1] - 1)
             IN  IF d.status # "ok" THEN [status |-> d.status, br |-> br]
                 ELSE IF rec.end_date = NoDate \/ rec.end_date >= d.value
                 THEN [status |-> "ok", br |-> [br EXCEPT !.recurrence.end_date = d.value]]
                 ELSE [status |-> "ok", br |-> br]

normalize_end(br) ==
    LET rec == br.recurrence
    IN  IF rec.rec_type = "ONCE"
        THEN [status |-> "ok",
              br |-> [br EXCEPT !.recurrence = Recurrence("ONCE", 1, br.start, <<1>>)]]
        ELSE IF rec.end_date # NoDate
        THEN LET dl == date_list(br, rec.end_date)
             IN  IF dl.status # "ok" THEN [status |-> dl.status, br |-> br]
                 ELSE IF \/ rec.end_nb_of_times = NoTimes
                         \/ rec.end_nb_of_times[1] >= Len(dl.dates)
                 THEN [status |-> "ok",
                       br |-> [br EXCEPT !.recurrence.end_nb_of_times = <<Len(dl.dates)>>]]
                 ELSE normalize_end_date(br)
        ELSE normalize_end_date(br)

\* BudgetTxnRule.__init__: the rule, or the exception of __normalize_end__.
BudgetTxnRule(name, start, amount, recurrence, account) ==
    normalize_end(BudgetRule(name, start, amount, recurrence, account))

BudgetPosting(id, account, amount) == [id |-> id, account |-> account, amount |-> amount]

BudgetTxn(txn_id, date, postings) == [id |-> txn_id, date |-> date, postings |-> postings]

\* The for loop of budget_txn_rule_to_txns over the dates: the transaction
\* t of the date is built and the list txns is left as it is.
RECURSIVE budget_txns_loop(_, _, _, _, _)
budget_txns_loop(br, budget_account, dates, i, out) ==
    IF i > Len(dates) THEN out
    ELSE LET t == BudgetTxn(None, dates[i],
                      << BudgetPosting(1, budget_account, br.amount),
                         BudgetPosting(2, br.account, -br.amount) >>)
         IN  budget_txns_loop(br, budget_account, dates, i + 1, out)

budget_txn_rule_to_txns(br, budget_account, end) ==
    LET dl == date_list(br, end)
    IN  IF dl.status # "ok" THEN [status |-> dl.status, value |-> <<>>]
        ELSE [status |-> "ok",
              value |-> budget_txns_loop(br, budget_account, dl.dates, 1, <<>>)]

(***************************************************************************)
(* The budget component: a rule is constructed from arguments drawn from   *)
(* bounded sets, then its dates and its transactions are asked for.        *)
(***************************************************************************)
MaxInterval == 2
MaxTimes == 3

BudgetStarts == {Ymd(2023, 1, 15), Ymd(2023, 1, 31), Ymd(2024, 2, 29)}
BudgetEndDates == {NoDate, Ymd(2023, 1, 1), Ymd(2023, 3, 15)}
BudgetHorizons == {Ymd(2023, 1, 1), Ymd(2023, 3, 15), Ymd(2023, 12, 31)}
BudgetAmount == 500

budget_account == get_account_by_ident("Chequing")

InitBudget ==
    /\ pc = "args"
    /\ \E start \in BudgetStarts, rec_type \in RecurrenceType, interval \in 1..MaxInterval,
          end_date \in BudgetEndDates,
          times \in {NoTimes} \cup {<<n>> : n \in 1..MaxTimes} :
          budget_rule = [status |-> "args",
                         args |-> BudgetRule("rule", start, BudgetAmount,
                                             Recurrence(rec_type, interval, end_date, times),
                                             get_account_by_ident("Expenses")),
                         br |-> None]
    /\ max_end \in BudgetHorizons
    /\ accounts = <<>> /\ chart = NoChart /\ rows = <<>> /\ loaded = NoTxns
    /\ NoJournal /\ NoImport

NewBudgetTxnRule ==
    /\ pc = "args"
    /\ \E r \in {BudgetTxnRule(budget_rule.args.name, budget_rule.args.start,
                               budget_rule.args.amount, budget_rule.args.recurrence,
                               budget_rule.args.account)} :
          budget_rule' = [status |-> r.status, args |-> budget_rule.args, br |-> r.br]
    /\ pc' = "rule"
    /\ UNCHANGED <<max_end, chartVars, loadVars, journalVars, importVars>>

DateList ==
    /\ pc = "rule" /\ budget_rule.status = "ok"
    /\ \E r \in {date_list(budget_rule.br, max_end)} :
          result' = [op |-> "date_list", status |-> r.status, value |-> r.dates]
    /\ UNCHANGED <<pc, budgetVars, chartVars, loadVars, txns, balance_assertions, cache,
                   importVars>>

BudgetTxnRuleToTxns ==
    /\ pc = "rule" /\ budget_rule.status = "ok"
    /\ \E r \in {budget_txn_rule_to_txns(budget_rule.br, budget_account, max_end)} :
          result' = [op |-> "budget_txn_rule_to_txns", status |-> r.status,
                     value |-> r.value]
    /\ UNCHANGED <<pc, budgetVars, chartVars, loadVars, txns, balance_assertions, cache,
                   importVars>>

\* next_date on the start date and the recurrence of the arguments.
NextDate ==
    /\ pc = "args"
    /\ result' = [op |-> "next_date", status |-> "ok",
                  value |-> next_date(budget_rule.args.start, budget_rule.args.recurrence)]
    /\ UNCHANGED <<pc, budgetVars, chartVars, loadVars, txns, balance_assertions, cache,
                   importVars>>

NextBudget == NewBudgetTxnRule \/ DateList \/ BudgetTxnRuleToTxns \/ NextDate

SpecBudget == InitBudget /\ [][NextBudget]_vars

\* verify_budget_txn_rules: ok, or the name of the exception raised.  None
\* and 0 are false where the code tests a number of times.
verify_budget_txn_rules(br) ==
    IF br.recurrence.interval <= 0 THEN "InvalidBudgetTxnRuleInterval"
    ELSE IF br.recurrence.end_date # NoDate /\ br.recurrence.end_date < br.start
    THEN "InvalidBudgetTxnRuleEndDate"
    ELSE IF /\ br.recurrence.end_nb_of_times # NoTimes
            /\ br.recurrence.end_nb_of_times # <<0>>
            /\ br.recurrence.end_nb_of_times[1] <= 0
    THEN "InvalidBudgetTxnRuleEndNbOfTimes"
    ELSE "ok"

\* A typed row of the budget file; recurrence is None when the column is
\* empty.
BudgetRow(name, start, amount, account, recurrence, interval, end_date, times) ==
    [name |-> name, start |-> start, amount |-> amount, account |-> account,
     recurrence |-> recurrence, interval |-> interval, end_date |-> end_date,
     times |-> times]

\* The loop of load_budget_txn_rules over the rows.
RECURSIVE load_budget_rows(_, _, _, _)
load_budget_rows(csv_rows, i, accounts_by_number, btxns) ==
    IF i > Len(csv_rows) THEN [status |-> "ok", rules |-> btxns]
    ELSE LET row == csv_rows[i]
         IN  IF ~InDict(accounts_by_number, row.account)
             THEN [status |-> "UnknownAccount", rules |-> <<>>]
             ELSE LET recurrence == IF row.recurrence # None
                                    THEN Recurrence(row.recurrence, row.interval,
                                                    row.end_date, row.times)
                                    ELSE Recurrence("ONCE", 1, NoDate, NoTimes)
                      r == BudgetTxnRule(row.name, row.start, row.amount, recurrence,
                                         account_by_id(accounts_by_number, row.account))
                  IN  IF r.status # "ok" THEN [status |-> r.status, rules |-> <<>>]
                      ELSE IF verify_budget_txn_rules(r.br) # "ok"
                      THEN [status |-> verify_budget_txn_rules(r.br), rules |-> <<>>]
                      ELSE load_budget_rows(csv_rows, i + 1, accounts_by_number,
                                            Append(btxns, r.br))

load_budget_txn_rules(csv_rows, accounts_by_number) ==
    load_budget_rows(csv_rows, 1, accounts_by_number, <<>>)

(***************************************************************************)
(* The budget file component: rows are drawn from a bounded set and        *)
(* load_budget_txn_rules runs on them.                                     *)
(***************************************************************************)
MaxBudgetRows == 2

BudgetRows ==
    {BudgetRow("rule", Ymd(2023, 1, 15), BudgetAmount, "Expenses", rec_type, interval,
               end_date, times) :
        rec_type \in {"DAILY", "MONTHLY"}, interval \in {0, 1},
        end_date \in BudgetEndDates, times \in {NoTimes, <<-1>>, <<0>>, <<2>>}}
    \cup {BudgetRow("rule", Ymd(2023, 1, 15), BudgetAmount, "Expenses", None, 1,
                    NoDate, NoTimes),
          BudgetRow("rule", Ymd(2023, 1, 15), BudgetAmount, "Savings", "DAILY", 1,
                    NoDate, <<2>>)}

InitBudgetLoad ==
    /\ pc = "budget_rows"
    /\ rows \in SeqUpTo(BudgetRows, MaxBudgetRows)
    /\ loaded = NoTxns
    /\ accounts = <<>> /\ chart = NoChart /\ NoBudget
    /\ NoJournal /\ NoImport

LoadBudgetTxnRules ==
    /\ pc = "budget_rows"
    /\ loaded' = load_budget_txn_rules(rows, journal_accounts)
    /\ pc' = "budget_loaded"
    /\ UNCHANGED <<rows, chartVars, journalVars, importVars, budgetVars>>

NextBudgetLoad == LoadBudgetTxnRules

SpecBudgetLoad == InitBudgetLoad /\ [][NextBudgetLoad]_vars

(***************************************************************************)
(* Claims on the chart of accounts.                                        *)
(***************************************************************************)
\* The reserved number range of the t-th root type, as the specification
\* gives it.
RootRange(t) == (1000 * t)..(1000 * t + 999)

\* Following the parent links from the account of an identifier reaches a
\* root without meeting an account of the set visited a second time.
RECURSIVE ReachesRoot(_, _, _)
ReachesRoot(c, identifier, visited) ==
    /\ identifier \notin visited
    /\ InDict(c.tops \o c.others, identifier)
    /\ LET a == account_by_id(c.tops \o c.others, identifier)
       IN  \/ \E t \in 1..5 : c.tops[t] = a /\ ~HasParent(a)
           \/ /\ HasParent(a)
              /\ ReachesRoot(c, a.parent, visited \cup {identifier})

\* C1: in every chart build_chart_of_accounts returns, every account
\* reachable from the five roots has a number in the range of the root it
\* descends from, and its parent links lead to a root without visiting an
\* account twice.
C1_NumbersInRangeAndChainsEnd ==
    (pc = "chart" /\ chart.status = "ok") =>
        \A t \in 1..5 : \A acc \in Range(ChartAccounts(chart, t)) :
            /\ acc.number \in RootRange(t)
            /\ ReachesRoot(chart, acc.identifier, {})

\* A chart was returned that holds a redefined root or an account two
\* levels below a root.
C1_Witness ==
    /\ pc = "chart" /\ chart.status = "ok"
    /\ \E a \in Range(chart.others) : \E b \in Range(chart.others) : b.parent = a.identifier

DupNumber(accs) ==
    \E i, j \in 1..Len(accs) : i # j /\ accs[i].number = accs[j].number

DupIdentifier(accs) ==
    \E i, j \in 1..Len(accs) : i # j /\ accs[i].identifier = accs[j].identifier

IsRootRecord(acc) == \E t \in 1..5 : AccountType[t] = acc.identifier

\* A record that redefines a root but may not: it declares a parent or its
\* number is outside the root's range.
BadRootRecord(accs) ==
    \E i \in 1..Len(accs) : \E t \in 1..5 :
        /\ AccountType[t] = accs[i].identifier
        /\ (HasParent(accs[i]) \/ accs[i].number \notin RootRange(t))

\* The numbers of the five roots: the number of the record that redefines
\* a root, the root's default number when no record does.
RootNumbers(accs) ==
    {accs[i].number : i \in {k \in 1..Len(accs) : IsRootRecord(accs[k])}}
    \cup {1000 * t : t \in {u \in 1..5 :
                        \A i \in 1..Len(accs) : accs[i].identifier # AccountType[u]}}

NonRootWithRootNumber(accs) ==
    \E i \in 1..Len(accs) : ~IsRootRecord(accs[i]) /\ accs[i].number \in RootNumbers(accs)

\* C2: a returned chart has pairwise distinct numbers and pairwise distinct
\* identifiers over all its accounts, the roots included.  Two records with
\* the same number raise AccountNumberNotUnique, two with the same
\* identifier AccountIdentifierNotUnique, a non-root record with the number
\* of a root AccountNumberReserved, and none of these inputs yields a chart.
\* When an input has several of these defects the error is that of the
\* check the code makes first (numbers, identifiers, redefined roots,
\* reserved numbers).
C2_UniqueNumbersAndIdentifiers ==
    pc = "chart" =>
        /\ chart.status = "ok" =>
              LET all == AllChartAccounts(chart)
              IN  \A i, j \in 1..Len(all) :
                     i # j => /\ all[i].number # all[j].number
                              /\ all[i].identifier # all[j].identifier
        /\ DupNumber(accounts) => chart.status = "AccountNumberNotUnique"
        /\ (DupIdentifier(accounts) /\ ~DupNumber(accounts))
              => chart.status = "AccountIdentifierNotUnique"
        /\ NonRootWithRootNumber(accounts) =>
              /\ chart.status # "ok"
              /\ (~DupNumber(accounts) /\ ~DupIdentifier(accounts) /\ ~BadRootRecord(accounts))
                    => chart.status = "AccountNumberReserved"
        /\ chart.status # "ok" => chart.tops = <<>> /\ chart.others = <<>>

\* A non-root record carries the default number of a root that no record
\* redefines, and the build raised AccountNumberReserved.
C2_Witness ==
    /\ pc = "chart" /\ chart.status = "AccountNumberReserved"
    /\ \E i \in 1..Len(accounts) : accounts[i].number = 1000 /\ accounts[i].identifier = "a"

\* A chart was returned whose Assets root was redefined with another number
\* and which holds a further account.
C2_WitnessChart ==
    /\ pc = "chart" /\ chart.status = "ok"
    /\ chart.tops[1].number # 1000 /\ chart.others # <<>>

(***************************************************************************)
(* Claims on load_txns.                                                    *)
(***************************************************************************)
Amounts(ps) == [i \in 1..Len(ps) |-> ps[i].amount]

RowsOfTxn(txn_id) == SelectSeq(rows, LAMBDA r : r.txn_id = txn_id)

RowTxnIds == {rows[i].txn_id : i \in 1..Len(rows)}

TooFewRows(txn_id) == Len(RowsOfTxn(txn_id)) < 2

NonZeroRows(txn_id) == SumSeq(Amounts(RowsOfTxn(txn_id))) # 0

\* A row the loop itself rejects: an unknown account, or a date that differs
\* from the date of the first row of its transaction.
RowRejected ==
    \E i \in 1..Len(rows) :
        \/ rows[i].account \notin {journal_accounts[k].identifier : k \in 1..Len(journal_accounts)}
        \/ rows[i].date # RowsOfTxn(rows[i].txn_id)[1].date

FirstRowOf(txn_id) == CHOOSE i \in 1..Len(rows) :
    rows[i].txn_id = txn_id /\ \A j \in 1..(i - 1) : rows[j].txn_id # txn_id

DefectiveTxnIds == {t \in RowTxnIds : TooFewRows(t) \/ NonZeroRows(t)}

FirstDefectiveTxnId == CHOOSE t \in DefectiveTxnIds :
    \A u \in DefectiveTxnIds : FirstRowOf(t) <= FirstRowOf(u)

PostingsOn(t, d) == SelectSeq(t.postings, LAMBDA p : p.date = d)

\* C3: every transaction load_txns returns has at least two postings and,
\* for each date among its postings, the amounts of that date sum to zero
\* (and the returned transactions are the ids of the rows, each with one
\* posting per row).  If some transaction id has fewer than two rows or a
\* non-zero sum, load_txns raises and no list is returned; when no row is
\* rejected while reading, the error is the one of the first defective
\* transaction in file order: TxnLessThanTwoPostings if it has fewer than
\* two postings, TxnNotBalanced otherwise.
C3_LoadedTxnsBalanced ==
    pc = "txns" =>
        /\ loaded.status = "ok" =>
              /\ {loaded.txns[k].id : k \in 1..Len(loaded.txns)} = RowTxnIds
              /\ \A k \in 1..Len(loaded.txns) :
                    LET t == loaded.txns[k]
                    IN  /\ Len(t.postings) >= 2
                        /\ Len(t.postings) = Len(RowsOfTxn(t.id))
                        /\ \A i \in 1..Len(t.postings) :
                              SumSeq(Amounts(PostingsOn(t, t.postings[i].date))) = 0
        /\ DefectiveTxnIds # {} => loaded.status # "ok"
        /\ loaded.status # "ok" => loaded.txns = <<>>
        /\ (DefectiveTxnIds # {} /\ ~RowRejected) =>
              loaded.status = IF TooFewRows(FirstDefectiveTxnId)
                              THEN "TxnLessThanTwoPostings"
                              ELSE "TxnNotBalanced"

\* A file of three rows of one transaction, balanced, is loaded.
C3_Witness ==
    /\ pc = "txns"
    /\ loaded.status = "ok"
    /\ Len(loaded.txns) = 1
    /\ Len(loaded.txns[1].postings) = 3
    /\ \E i \in 1..3 : loaded.txns[1].postings[i].amount # 0

\* A transaction with two postings that do not balance comes before a
\* transaction with a single posting: TxnNotBalanced is raised.
C3_WitnessNotBalanced ==
    /\ pc = "txns"
    /\ loaded.status = "TxnNotBalanced"
    /\ \E t \in RowTxnIds : TooFewRows(t)

(***************************************************************************)
(* Claims on the balances of the journal.                                  *)
(***************************************************************************)
\* The account named below_id is the account named above_id or one of its
\* descendants, by the parent links of the chart.
RECURSIVE IsAtOrBelow(_, _, _)
IsAtOrBelow(below_id, above_id, fuel) ==
    \/ below_id = above_id
    \/ /\ fuel > 0
       /\ get_account_by_ident(below_id).parent # None
       /\ IsAtOrBelow(get_account_by_ident(below_id).parent, above_id, fuel - 1)

\* The sum the claim states: the amounts of the postings of the current
\* transactions on the account (or below it) dated on or before d.
SumOfPostings(name, d, use_statement_date, include_subaccounts) ==
    LET ps == all_postings(txns)
        counted(x) ==
            /\ IF include_subaccounts
               THEN IsAtOrBelow(x.account.identifier, name, Len(journal_accounts))
               ELSE x.account.identifier = name
            /\ (IF use_statement_date THEN x.statement_date ELSE x.date) <= d
    IN  SumSeq(Amounts(SelectSeq(ps, counted)))

AccountNames == {journal_accounts[k].identifier : k \in 1..Len(journal_accounts)}

\* C4: once a journal is loaded, and again after transactions are added, for
\* every account, every date and both date bases, account_balance, with or
\* without the sub-accounts, is the sum of the amounts of the postings of the
\* current transactions on the account (or on the account and its
\* descendants) dated on or before the date, 0 when there is none; and the
\* value a call returned is that sum.
C4_AccountBalanceIsSum ==
    pc = "journal" =>
        /\ result.op # "account_balance" =>
            \A name \in AccountNames, d \in 0..5,
              use_statement_date \in BOOLEAN, include_subaccounts \in BOOLEAN :
              account_balance(cache, get_account_by_ident(name), d,
                              use_statement_date, include_subaccounts)
                = SumOfPostings(name, d, use_statement_date, include_subaccounts)
        /\ result.op = "account_balance" =>
              result.value = SumOfPostings(result.account, result.dt,
                                 result.use_statement_date, result.include_subaccounts)

\* The example: +5 on day 1 and -2 on day 3 on Chequing give 5 on day 2, 3 on
\* day 4 (the value returned) and 0 on day 0.
C4_Witness ==
    /\ pc = "journal"
    /\ Len(txns) = 2
    /\ \A k \in 1..2 : txns[k].postings[1].account.identifier = "Chequing"
    /\ txns[1].postings[1].date = 1 /\ txns[1].postings[1].amount = 5
    /\ txns[2].postings[1].date = 3 /\ txns[2].postings[1].amount = -2
    /\ result.op = "account_balance"
    /\ result.account = "Chequing" /\ result.dt = 4
    /\ ~result.use_statement_date /\ ~result.include_subaccounts
    /\ result.value = 3
    /\ account_balance(cache, get_account_by_ident("Chequing"), 2, FALSE, FALSE) = 5
    /\ account_balance(cache, get_account_by_ident("Chequing"), 0, FALSE, FALSE) = 0

\* A balance with the sub-accounts that differs from the balance without
\* them, on the statement dates.
C4_WitnessSubaccounts ==
    /\ pc = "journal"
    /\ result.op = "account_balance"
    /\ result.account = "Chequing"
    /\ result.use_statement_date /\ result.include_subaccounts
    /\ result.value # 0
    /\ result.value # account_balance(cache, get_account_by_ident("Chequing"),
                                       result.dt, TRUE, FALSE)
    /\ result.value # account_balance(cache, get_account_by_ident("Chequing"),
                                       result.dt, FALSE, TRUE)

(***************************************************************************)
(* Claims on verify_balances.                                              *)
(***************************************************************************)
\* The checkpoint b fails: its asserted amount differs from the sum of the
\* postings on its account or below, by statement date, up to its date.
CheckpointFails(b) ==
    SumOfPostings(b.account.identifier, b.date, TRUE, TRUE) # b.statement_balance

FailingCheckpoints ==
    {k \in 1..Len(balance_assertions) : CheckpointFails(balance_assertions[k])}

\* The checkpoint before which no failing checkpoint comes in ascending
\* (date, account number) order.
IsFirstFailing(k) ==
    /\ k \in FailingCheckpoints
    /\ \A j \in FailingCheckpoints :
          ~ByDateAndNumber(balance_assertions[j], balance_assertions[k])

\* C5: verify_balances raises BalanceAssertionFailed exactly when some
\* checkpoint fails; the error carries the account, the date, the asserted
\* amount and the computed amount of a failing checkpoint that no failing
\* checkpoint precedes in (date, account number) order; otherwise it returns;
\* and the call changes neither the transactions, nor the checkpoints, nor
\* the caches, so that a second call gives the same outcome.
C5_VerifyBalances ==
    [][VerifyBalances =>
        /\ UNCHANGED <<txns, balance_assertions, cache>>
        /\ result'.status = "BalanceAssertionFailed" <=> FailingCheckpoints # {}
        /\ result'.status \in {"BalanceAssertionFailed", "ok"}
        /\ result'.status = "BalanceAssertionFailed" =>
              \E k \in FailingCheckpoints :
                 LET b == balance_assertions[k]
                 IN  /\ IsFirstFailing(k)
                     /\ result'.account = b.account.identifier
                     /\ result'.date = b.date
                     /\ result'.statement_balance = b.statement_balance
                     /\ result'.txnAmount
                          = SumOfPostings(b.account.identifier, b.date, TRUE, TRUE)
        /\ result' = verify_balances(cache', balance_assertions')
        /\ result.op = "verify_balances" => result' = result]_vars

\* verify_balances raised although the checkpoint that comes first in
\* (date, account number) order is satisfied, after postings were shifted.
C5_Witness ==
    /\ pc = "journal"
    /\ result.op = "verify_balances"
    /\ result.status = "BalanceAssertionFailed"
    /\ Len(balance_assertions) = 2
    /\ \E k \in 1..2 : ~CheckpointFails(balance_assertions[k])
                          /\ ByDateAndNumber(balance_assertions[k],
                                             balance_assertions[3 - k])
    /\ \E i \in 1..Len(all_postings(txns)) :
          all_postings(txns)[i].statement_date > all_postings(txns)[i].date

\* verify_balances returned on a journal with two checkpoints and postings.
C5_WitnessOk ==
    /\ pc = "journal"
    /\ result.op = "verify_balances"
    /\ result.status = "ok"
    /\ Len(balance_assertions) = 2
    /\ txns # <<>>

(***************************************************************************)
(* Claims on classify.                                                     *)
(***************************************************************************)
\* The bounds a rule declares hold for p, both ends included; a bound is
\* declared when it is not None.
DeclaredBoundsHold(rule, p) ==
    /\ rule.match_date[1] # NoDate => rule.match_date[1] <= p.date
    /\ rule.match_date[2] # NoDate => p.date <= rule.match_date[2]
    /\ rule.match_amnt[1] # NoAmount => rule.match_amnt[1][1] <= p.amount
    /\ rule.match_amnt[2] # NoAmount => p.amount <= rule.match_amnt[2][1]

\* A pattern of plain letters matches a whole text when it is that text.
FullMatch(pattern, text) == text = pattern

\* Every predicate a rule declares holds for p.
DeclaredPredicatesHold(rule, p) ==
    /\ DeclaredBoundsHold(rule, p)
    /\ rule.match_account # NoText
          => FullMatch(rule.match_account, identifier_letters(p.account.identifier))
    /\ rule.match_statement_description # NoText
          => FullMatch(rule.match_statement_description, p.statement_description)
    /\ rule.match_payee # NoText => FullMatch(rule.match_payee, p.payee)

\* The first rule all of whose declared predicates hold for p, 0 when there
\* is none.
FirstDeclaredRule(p) ==
    LET holding == {i \in 1..Len(classification_rules) :
                       DeclaredPredicatesHold(classification_rules[i], p)}
    IN  IF holding = {} THEN 0 ELSE CHOOSE i \in holding : \A j \in holding : i <= j

YieldsTxn(p) ==
    \/ FirstDeclaredRule(p) = 0
    \/ classification_rules[FirstDeclaredRule(p)].second_account # NoAccount

\* Whether a rule applies to p and the account that offsets it.
ExpectedOffset(p) ==
    IF FirstDeclaredRule(p) = 0
    THEN <<FALSE, import_config.default_snd_account.identifier>>
    ELSE <<TRUE, classification_rules[FirstDeclaredRule(p)].second_account.identifier>>

Classified == result.op = "classify"

\* The k-th pair classify returned: whether a rule applied and the offset
\* account.
ReturnedOffset(k) ==
    <<result.value[k][1], result.value[k][2].postings[2].account.identifier>>

IsTxnOf(t, p) ==
    /\ t.postings[1].date = p.date
    /\ t.postings[1].amount = p.amount
    /\ t.postings[1].statement_description = p.statement_description

\* C6: classify yields, in the order of the raw postings, one transaction
\* for every raw posting but those whose first rule with all declared
\* predicates holding has no target; the offsetting posting is on the target
\* of that rule, on the default account when no rule has all its declared
\* predicates holding.
C6_FirstDeclaredRuleApplies ==
    Classified =>
        LET kept == SelectSeq(raw_postings, YieldsTxn)
        IN  /\ Len(result.value) = Len(kept)
            /\ \A k \in 1..Len(kept) :
                  /\ IsTxnOf(result.value[k][2], kept[k])
                  /\ ReturnedOffset(k) = ExpectedOffset(kept[k])

\* The example of the specification at the scale of the model: one rule on
\* the amounts 3 to 5, a posting of 4 goes to the target of the rule and a
\* posting of 9 to the default account.
ClassifyExample ==
    (/\ Classified
     /\ Len(classification_rules) = 1
     /\ classification_rules[1].match_amnt = <<<<3>>, <<5>>>>
     /\ Len(raw_postings) = 2
     /\ raw_postings[1].amount = 4 /\ raw_postings[2].amount = 9)
    => /\ Len(result.value) = 2
       /\ ReturnedOffset(1) = <<TRUE, "Expenses">>
       /\ ReturnedOffset(2) = <<FALSE, "Equity">>

\* A rule that declares bounds and nothing else.
OnlyBounds(rule) ==
    /\ rule.match_account = NoText
    /\ rule.match_statement_description = NoText
    /\ rule.match_payee = NoText

\* C7: when classify runs with a single rule that declares bounds only, a
\* raw posting is matched by the rule exactly when every declared bound
\* holds for it, both ends included: with a target every raw posting yields
\* a transaction flagged with that; without a target the raw postings that
\* yield a transaction are those for which some declared bound fails.
C7_RuleMatchesIffBoundsHold ==
    (/\ Classified
     /\ Len(classification_rules) = 1
     /\ OnlyBounds(classification_rules[1]))
    => LET rule == classification_rules[1]
           Fails(p) == ~DeclaredBoundsHold(rule, p)
           unmatched == SelectSeq(raw_postings, Fails)
       IN  IF rule.second_account # NoAccount
           THEN /\ Len(result.value) = Len(raw_postings)
                /\ \A i \in 1..Len(raw_postings) :
                      result.value[i][1] = DeclaredBoundsHold(rule, raw_postings[i])
           ELSE /\ Len(result.value) = Len(unmatched)
                /\ \A k \in 1..Len(unmatched) :
                      /\ result.value[k][1] = FALSE
                      /\ IsTxnOf(result.value[k][2], unmatched[k])

\* A declared amount bound is 0.
HasZeroBound(rule) == rule.match_amnt[1] = <<0>> \/ rule.match_amnt[2] = <<0>>

\* The same statement for the rules none of whose amount bounds is 0: it
\* holds.
RuleMatchesIffNonZeroBoundsHold ==
    (Len(classification_rules) = 1 /\ HasZeroBound(classification_rules[1]))
    \/ C7_RuleMatchesIffBoundsHold

\* C6 for the lists of rules that declare bounds only, none of them an
\* amount bound of 0: it holds.
FirstDeclaredRuleAppliesWithoutPatternOrZero ==
    (\A i \in 1..Len(classification_rules) :
        OnlyBounds(classification_rules[i]) /\ ~HasZeroBound(classification_rules[i]))
    => C6_FirstDeclaredRuleApplies

\* A transaction with two postings on the date of p: the first on the
\* account of p with its amount, the second with the opposite amount.
IsBalancedPairOf(t, p) ==
    /\ Len(t.postings) = 2
    /\ t.postings[1].date = p.date /\ t.postings[2].date = p.date
    /\ t.postings[1].account = p.account
    /\ t.postings[1].amount = p.amount
    /\ t.postings[2].amount = -p.amount
    /\ t.postings[1].amount + t.postings[2].amount = 0

OffsetAccounts ==
    {import_config.default_snd_account.identifier}
    \cup {classification_rules[i].second_account.identifier
            : i \in 1..Len(classification_rules)}

\* C8: the transactions classify returns are, in order, balanced pairs of
\* distinct raw postings taken in order: two postings on the date of the raw
\* posting, the first on its account with its amount, the second on the
\* default account or the target of a rule with the opposite amount.
C8_TwoBalancedPostings ==
    Classified =>
        \E f \in [1..Len(result.value) -> 1..Len(raw_postings)] :
            /\ \A j, k \in 1..Len(result.value) : j < k => f[j] < f[k]
            /\ \A k \in 1..Len(result.value) :
                  /\ IsBalancedPairOf(result.value[k][2], raw_postings[f[k]])
                  /\ result.value[k][2].postings[2].account.identifier
                        \in OffsetAccounts \ {None}

\* classify returned a transaction made by a rule and one made by default,
\* of amounts that are not 0.
C8_Witness ==
    /\ Classified
    /\ \E j, k \in 1..Len(result.value) :
          /\ result.value[j][1] /\ ~result.value[k][1]
          /\ result.value[j][2].postings[1].amount # 0
          /\ result.value[k][2].postings[1].amount # 0

(***************************************************************************)
(* Claims on import_from_bank_csv.                                         *)
(***************************************************************************)
Imported == result.op = "import_from_bank_csv"

\* The rows of the bank file that give a raw posting the date cutoff does
\* not exclude.
RawRows ==
    {i \in 1..Len(bank_rows) :
        /\ import_config.import_zero_amount \/ bank_rows[i].amount # 0
        /\ from_date = NoDate \/ bank_rows[i].date >= from_date}

KeyOfRow(i) ==
    <<bank_rows[i].date, import_config.account.number, bank_rows[i].amount,
      bank_rows[i].statement_description>>

\* The number of postings of the journal on the account of the import that
\* have the key of row i.
KnownOccurrences(i) ==
    LET all == all_postings(txns)
    IN  Cardinality({j \in 1..Len(all) :
           <<all[j].date, all[j].account.number, all[j].amount,
             all[j].statement_description>> = KeyOfRow(i)})

\* The number of raw postings of the key of row i up to row i.
RankOfRow(i) == Cardinality({j \in RawRows : j <= i /\ KeyOfRow(j) = KeyOfRow(i)})

RawOccurrences(i) == Cardinality({j \in RawRows : KeyOfRow(j) = KeyOfRow(i)})

ReachedClassification ==
    {result.unknownPs[k].pid : k \in 1..Len(result.unknownPs)}

Max0(n) == IF n > 0 THEN n ELSE 0

\* C9: after an import the postings handed to classify are, in file order,
\* the raw postings not excluded by the date cutoff that come after the
\* first k of their key, k being the number of known occurrences of the key:
\* max(0, n - k) of the n raw postings of a key; and the dict of known keys
\* keeps max(0, k - n) occurrences of the key.
C9_DedupConsumesOccurrences ==
    Imported =>
        /\ ReachedClassification = {i \in RawRows : RankOfRow(i) > KnownOccurrences(i)}
        /\ \A j, k \in 1..Len(result.unknownPs) :
              j < k => result.unknownPs[j].pid < result.unknownPs[k].pid
        /\ \A i \in RawRows :
              /\ Cardinality({j \in ReachedClassification : KeyOfRow(j) = KeyOfRow(i)})
                    = Max0(RawOccurrences(i) - KnownOccurrences(i))
              /\ (IF KeyOfRow(i) \in DOMAIN known_postings
                  THEN known_postings[KeyOfRow(i)] ELSE 0)
                    = Max0(KnownOccurrences(i) - RawOccurrences(i))

\* An import in which a key has one known occurrence and two raw postings,
\* the second of which reaches classify.
C9_Witness ==
    /\ Imported
    /\ \E i \in RawRows :
          /\ KnownOccurrences(i) = 1 /\ RawOccurrences(i) = 2
          /\ RankOfRow(i) = 2 /\ i \in ReachedClassification

\* An import in which a key has two known occurrences and one raw posting.
C9_WitnessLeftOver ==
    /\ Imported
    /\ \E i \in RawRows :
          /\ KnownOccurrences(i) = 2 /\ RawOccurrences(i) = 1
          /\ known_postings[KeyOfRow(i)] = 1

(***************************************************************************)
(* Claims on auto_statement_date.                                          *)
(***************************************************************************)
\* The statement-basis, subaccount-inclusive balance of the checkpoint b in
\* the transactions ts.
CheckpointBalance(ts, b) ==
    SumSeq(Amounts(SelectSeq(all_postings(ts),
        LAMBDA x : /\ IsAtOrBelow(x.account.identifier, b.account.identifier,
                                  Len(journal_accounts))
                   /\ x.statement_date <= b.date)))

\* The postings the claim allows to be selected for the checkpoint b: on the
\* account or below, dated in the days limit up to the checkpoint.
EligiblePostings(ts, b) ==
    SelectSeq(all_postings(ts),
        LAMBDA x : /\ IsAtOrBelow(x.account.identifier, b.account.identifier,
                                  Len(journal_accounts))
                   /\ x.date <= b.date
                   /\ x.date >= b.date - dayslimit)

Pids(ps) == {ps[i].pid : i \in 1..Len(ps)}

SumOfPids(ts, S) ==
    SumSeq(Amounts(SelectSeq(all_postings(ts), LAMBDA x : x.pid \in S)))

\* The transactions as the k-th recorded checkpoint left them.
AfterStep(k) ==
    IF k < Len(result.steps) THEN result.steps[k + 1].before ELSE txns

\* What the claim states of the k-th recorded checkpoint, computed being the
\* amount given: only selected postings change, they are eligible, they get
\* the checkpoint date + 1, and their amounts sum to computed - asserted;
\* nothing is selected when no set of eligible postings has that sum.
StepRepairs(k, computed) ==
    LET s == result.steps[k]
        diff == computed - s.b.statement_balance
        S == Range(s.selected)
        ps == all_postings(s.before)
    IN  diff # 0 =>
          /\ \A i \in 1..Len(ps) :
                \/ ps[i].pid \in S
                \/ posting_by_pid(AfterStep(k), ps[i].pid) = ps[i]
          /\ \A i \in 1..Len(ps) :
                ps[i].pid \in S =>
                  /\ ps[i].pid \in Pids(EligiblePostings(s.before, s.b))
                  /\ posting_by_pid(AfterStep(k), ps[i].pid)
                       = [ps[i] EXCEPT !.statement_date = s.b.date + 1]
          /\ S # {} => SumOfPids(s.before, S) = diff
          /\ (\A T \in SUBSET Pids(EligiblePostings(s.before, s.b)) :
                 T # {} => SumOfPids(s.before, T) # diff) => S = {}

\* C10: for every checkpoint of a configured account whose balance, when
\* auto_statement_date reaches it, differs from the asserted amount, the
\* call changes the statement date only of postings on the account or below
\* it, dated not after the checkpoint and at most dayslimit days before it,
\* whose amounts sum to (computed - asserted); each gets the checkpoint date
\* + 1; when no such set exists nothing is changed for the checkpoint.
C10_SelectionRepairsCheckpoint ==
    (pc = "journal" /\ result.op = "auto_statement_date") =>
        \A k \in 1..Len(result.steps) :
            StepRepairs(k, CheckpointBalance(result.steps[k].before, result.steps[k].b))

\* The same with the balance of the checkpoint taken at the start of the
\* call, which is the one the caches of the call hold.
AutoStatementDateRepairsStartBalance ==
    (pc = "journal" /\ result.op = "auto_statement_date") =>
        \A k \in 1..Len(result.steps) :
            StepRepairs(k, CheckpointBalance(result.steps[1].before, result.steps[k].b))

\* A call that selected postings for two checkpoints.
AutoStatementDateTwoRepairs ==
    /\ pc = "journal" /\ result.op = "auto_statement_date"
    /\ Len(result.steps) = 2
    /\ \A k \in 1..2 : result.steps[k].selected # <<>>

\* The postings that can still be moved past the checkpoint b: eligible and
\* with a statement date not after the checkpoint.
MovablePostings(ts, b) ==
    SelectSeq(EligiblePostings(ts, b), LAMBDA x : x.statement_date <= b.date)

\* The k-th recorded checkpoint has exactly one movable posting, of the
\* amount given, and its balance at the start of the call is not the
\* asserted amount.
OnePostingOf(k, amount) ==
    LET s == result.steps[k]
        el == MovablePostings(s.before, s.b)
    IN  /\ CheckpointBalance(result.steps[1].before, s.b) # s.b.statement_balance
        /\ Len(el) = 1
        /\ el[1].amount = amount

\* The k-th recorded checkpoint selected exactly its one movable posting and
\* the posting got the checkpoint date + 1.
SelectsThePosting(k) ==
    LET s == result.steps[k]
        el == MovablePostings(s.before, s.b)
    IN  /\ s.selected = <<el[1].pid>>
        /\ posting_by_pid(AfterStep(k), el[1].pid)
              = [el[1] EXCEPT !.statement_date = s.b.date + 1]

AfterAutoStatementDate == pc = "journal" /\ result.op = "auto_statement_date"

C11_WitnessNotSelected ==
    /\ AfterAutoStatementDate
    /\ \E k \in 1..Len(result.steps) :
          /\ result.steps[k].b.statement_balance = 10
          /\ CheckpointBalance(result.steps[k].before, result.steps[k].b) = 7
          /\ OnePostingOf(k, 3)
          /\ result.steps[k].selected = <<>>

\* The transactions as they were when the call of auto_statement_date began
\* (the call leaves them sorted and changes statement dates only).
TxnsBeforeCall == IF result.steps # <<>> THEN result.steps[1].before ELSE txns

FailedBefore(b) == CheckpointBalance(TxnsBeforeCall, b) # b.statement_balance

FailsNow(b) == CheckpointBalance(txns, b) # b.statement_balance

\* Postings were selected for the checkpoint b during the call.
ShiftedFor(b) ==
    \E k \in 1..Len(result.steps) :
        result.steps[k].b = b /\ result.steps[k].selected # <<>>

\* Every checkpoint that failed before the call is on a configured account
\* and had postings shifted for it.
EveryFailureShifted ==
    \A i \in 1..Len(balance_assertions) :
        FailedBefore(balance_assertions[i]) =>
            /\ balance_assertions[i].account.number \in auto_statement_date_accounts
            /\ ShiftedFor(balance_assertions[i])

\* C12: after a call of auto_statement_date in which every checkpoint that
\* failed before the call is on a configured account and had postings
\* shifted for it, no checkpoint fails on the final statement dates and
\* verify_balances does not raise.
C12_RepairedCheckpointsHold ==
    (AfterAutoStatementDate /\ EveryFailureShifted) =>
        /\ \A i \in 1..Len(balance_assertions) : ~FailsNow(balance_assertions[i])
        /\ verify_balances(cache, balance_assertions).status = "ok"

\* The same for the journals with a single checkpoint: it holds.
SingleCheckpointRepairHolds ==
    Len(balance_assertions) = 1 => C12_RepairedCheckpointsHold

\* A call that shifted a posting for the one checkpoint of the journal,
\* which failed before.
SingleCheckpointRepairReached ==
    /\ AfterAutoStatementDate /\ EveryFailureShifted
    /\ Len(balance_assertions) = 1
    /\ FailedBefore(balance_assertions[1])

\* A call on the checkpoints (8, Chequing, 5) and (8, Project North, 3) and
\* two postings of 3 and 5 on Project North: both checkpoints failed before,
\* postings were shifted for both, and both fail after.
BothRepairedBothFail ==
    /\ AfterAutoStatementDate /\ EveryFailureShifted
    /\ Len(balance_assertions) = 2
    /\ balance_assertions[1].statement_balance = 5
    /\ balance_assertions[2].statement_balance = 3
    /\ \A i \in 1..2 : FailedBefore(balance_assertions[i]) /\ FailsNow(balance_assertions[i])

(***************************************************************************)
(* Claims on auto_balance.                                                 *)
(***************************************************************************)
AfterAutoBalance == pc = "journal" /\ result.op = "auto_balance"

\* The accounts configured for auto balance and the account each is
\* balanced against, as the configuration of the model gives them.
PlugAccounts == {"Chequing", "Project North"}

PlugOffset(identifier) == "Income"

\* The transactions as the k-th recorded checkpoint of auto_balance left
\* them.
AfterPlugStep(k) ==
    IF k < Len(result.steps) THEN result.steps[k + 1].before ELSE txns

\* t is the plug of the checkpoint b for the balance computed: two postings
\* dated and statement-dated at the checkpoint, asserted - computed on the
\* account of the checkpoint and the opposite on the offset account.
IsPlug(t, b, computed) ==
    /\ Len(t.postings) = 2
    /\ \A i \in 1..2 : /\ t.postings[i].date = b.date
                       /\ t.postings[i].statement_date = b.date
    /\ t.postings[1].account = b.account
    /\ t.postings[1].amount = b.statement_balance - computed
    /\ t.postings[2].account.identifier = PlugOffset(b.account.identifier)
    /\ t.postings[2].amount = -(b.statement_balance - computed)

\* What the claim states of the k-th recorded checkpoint: one plug added at
\* the end of the transactions when the balance differs, nothing otherwise.
StepPlugs(k) ==
    LET s == result.steps[k]
        computed == CheckpointBalance(s.before, s.b)
        after == AfterPlugStep(k)
    IN  IF computed # s.b.statement_balance
        THEN /\ Len(after) = Len(s.before) + 1
             /\ SubSeq(after, 1, Len(s.before)) = s.before
             /\ IsPlug(after[Len(after)], s.b, computed)
        ELSE after = s.before

ConfiguredCheckpoints ==
    {i \in 1..Len(balance_assertions) :
        balance_assertions[i].account.identifier \in PlugAccounts}

\* C13: auto_balance goes through the checkpoints of the configured
\* accounts and through no other; for each one whose statement-basis,
\* subaccount-inclusive balance differs from the asserted amount when it is
\* reached it adds exactly one transaction, the plug of the checkpoint, and
\* it adds nothing else.
C13_OnePlugPerFailingCheckpoint ==
    AfterAutoBalance =>
        /\ Len(result.steps) = Cardinality(ConfiguredCheckpoints)
        /\ \A k \in 1..Len(result.steps) :
              /\ \E i \in ConfiguredCheckpoints : balance_assertions[i] = result.steps[k].b
              /\ StepPlugs(k)
        /\ result.steps = <<>> => result.value = <<>>
        /\ result.steps # <<>> =>
              /\ Len(result.value) = Len(txns) - Len(result.steps[1].before)
              /\ result.value = SubSeq(txns, Len(result.steps[1].before) + 1, Len(txns))

\* The same for the calls that return: it holds.
OnePlugPerFailingCheckpointWhenReturning ==
    (AfterAutoBalance /\ result.status = "ok") => C13_OnePlugPerFailingCheckpoint

\* A call that added the plug of a checkpoint of Project North and left a
\* checkpoint of Assets, which is not configured, failing.
PlugAddedReached ==
    /\ AfterAutoBalance /\ result.status = "ok"
    /\ Len(result.value) = 1
    /\ result.value[1].postings[1].account.identifier = "Project North"
    /\ \E i \in 1..Len(balance_assertions) :
          /\ balance_assertions[i].account.identifier = "Assets"
          /\ FailsNow(balance_assertions[i])

\* A call on a journal without transactions and with a checkpoint whose
\* amount is not 0: ValueError, nothing added.
PlugOnEmptyJournalRaises ==
    /\ AfterAutoBalance /\ result.status = "ValueError"
    /\ txns = <<>> /\ result.value = <<>>

\* The transactions as they were when the call of auto_balance began.
TxnsBeforePlugs == SubSeq(txns, 1, Len(txns) - Len(result.value))

NoDuplicateCheckpoints ==
    \A i, j \in 1..Len(balance_assertions) :
        (/\ balance_assertions[i].account = balance_assertions[j].account
         /\ balance_assertions[i].date = balance_assertions[j].date) => i = j

\* C14: after auto_balance returned, on checkpoints no two of which share
\* account and date, no checkpoint of a configured account fails; and when
\* every checkpoint that failed before the call is on a configured account,
\* verify_balances does not raise.
C14_ConfiguredCheckpointsHold ==
    (AfterAutoBalance /\ result.status = "ok" /\ NoDuplicateCheckpoints) =>
        /\ \A i \in ConfiguredCheckpoints : ~FailsNow(balance_assertions[i])
        /\ (\A i \in 1..Len(balance_assertions) :
               CheckpointBalance(TxnsBeforePlugs, balance_assertions[i])
                   # balance_assertions[i].statement_balance
               => i \in ConfiguredCheckpoints)
           => verify_balances(cache, balance_assertions).status = "ok"

\* The same for the journals with a single checkpoint: it holds.
SingleCheckpointPlugHolds ==
    Len(balance_assertions) = 1 => C14_ConfiguredCheckpointsHold

\* A call that added the plug of the one checkpoint of the journal.
SingleCheckpointPlugReached ==
    /\ AfterAutoBalance /\ result.status = "ok"
    /\ Len(balance_assertions) = 1 /\ Len(result.value) = 1

\* A call on the checkpoints (8, Chequing, 5) and (8, Project North, 3) that
\* added a plug on Project North only and leaves Chequing failing.
PlugBreaksParentCheckpoint ==
    /\ AfterAutoBalance /\ result.status = "ok"
    /\ Len(balance_assertions) = 2 /\ NoDuplicateCheckpoints
    /\ Len(result.value) = 1
    /\ result.value[1].postings[1].account.identifier = "Project North"
    /\ \E i \in 1..2 :
          /\ balance_assertions[i].account.identifier = "Chequing"
          /\ balance_assertions[i].date = 8
          /\ CheckpointBalance(TxnsBeforePlugs, balance_assertions[i])
               = balance_assertions[i].statement_balance
          /\ FailsNow(balance_assertions[i])

(***************************************************************************)
(* Claims on the repairs of a journal whose checkpoints are satisfied.     *)
(***************************************************************************)
\* The fields of the postings that a repair may change, by posting object.
PostingFields(ts) ==
    { [pid |-> x.pid, account |-> x.account, amount |-> x.amount, date |-> x.date,
       statement_date |-> x.statement_date] : x \in Range(all_postings(ts)) }

\* C15: a step of auto_balance or auto_statement_date from a journal whose
\* every checkpoint is satisfied raises nothing, returns the empty list,
\* adds no transaction and changes no posting's account, amount, date or
\* statement date.
C15_SatisfiedJournalUnchanged ==
    [][ (/\ verify_balances(cache, balance_assertions).status = "ok"
         /\ result'.op \in {"auto_balance", "auto_statement_date"})
        => /\ result'.status = "ok"
           /\ result'.value = <<>>
           /\ Len(txns') = Len(txns)
           /\ PostingFields(txns') = PostingFields(txns) ]_vars

\* A repair returned the empty list on a journal with transactions and two
\* satisfied checkpoints.
C15_Witness ==
    /\ result.op \in {"auto_balance", "auto_statement_date"}
    /\ result.status = "ok" /\ result.value = <<>>
    /\ Len(txns) >= 1 /\ Len(balance_assertions) = 2
    /\ verify_balances(cache, balance_assertions).status = "ok"

\* The same after auto_statement_date.
SatisfiedJournalAlignmentReached ==
    /\ C15_Witness /\ result.op = "auto_statement_date"

(***************************************************************************)
(* Claims on the derived indexes and on add_balances.                      *)
(***************************************************************************)
\* C16: after the load and after every add_txns, add_balances, auto_balance
\* and auto_statement_date, each derived index (transactions by id, postings
\* by account, the balance timelines of both date bases, assertions by
\* account) is the one rebuilt from the transactions and the checkpoints.
C16_IndexesAreRebuilt ==
    /\ cache.txns_by_id = txns_by_id(txns)
    /\ cache.postings_by_account = postings_by_account(txns)
    /\ cache.account_balance = account_balance_cache(postings_by_account(txns))
    /\ cache.account_st_balance = account_st_balance_cache(postings_by_account(txns))
    /\ cache.assertion_by_account = assertion_by_account(balance_assertions)

\* A checkpoint was added to a journal on which a repair had changed the
\* transactions.
C16_Witness ==
    /\ result.op = "add_balances"
    /\ \E k \in 1..Len(txns) : \E i \in 1..Len(txns[k].postings) :
          \/ txns[k].postings[i].statement_date = 9
          \/ txns[k].postings[i].account.identifier = "Income"
    /\ Len(balance_assertions) = 2

\* The checkpoint b has the account and the date of a checkpoint of bals.
DuplicatesOneOf(b, bals) ==
    \E i \in 1..Len(bals) : bals[i].account = b.account /\ bals[i].date = b.date

\* C17: no two checkpoints of the journal share account and date, and
\* add_balances of a checkpoint whose account and date the journal already
\* holds raises DuplicateBalance and leaves the checkpoints as they were.
C17_DuplicateCheckpointRejected ==
    /\ NoDuplicateCheckpoints
    /\ (result.op = "add_balances" /\ DuplicatesOneOf(result.added, result.before))
       => /\ result.status = "DuplicateBalance"
          /\ balance_assertions = result.before

\* add_balances returned normally and the journal holds twice the checkpoint
\* (day 8, Chequing, 5).
DuplicateCheckpointAdded ==
    /\ result.op = "add_balances" /\ result.status = "ok"
    /\ balance_assertions
         = << Balance(8, get_account_by_ident("Chequing"), 5),
              Balance(8, get_account_by_ident("Chequing"), 5) >>

\* add_balances of a checkpoint of another date or account adds it.
DistinctCheckpointAdded ==
    (result.op = "add_balances" /\ ~DuplicatesOneOf(result.added, result.before))
    => /\ result.status = "ok"
       /\ balance_assertions = Append(result.before, result.added)

(***************************************************************************)
(* Claims on the load of transactions over several days.                   *)
(***************************************************************************)
RowDatesOf(txn_id) == {RowsOfTxn(txn_id)[i].date : i \in 1..Len(RowsOfTxn(txn_id))}

\* The rows of the transaction sum to zero on each of their dates.
BalancedOnEachDate(txn_id) ==
    \A d \in RowDatesOf(txn_id) :
        SumSeq(Amounts(SelectSeq(RowsOfTxn(txn_id), LAMBDA r : r.date = d))) = 0

\* A file of known accounts whose transactions have two rows or more and
\* balance on each date, one of them with rows on two dates or more.
MultiDayFile ==
    /\ \A i \in 1..Len(rows) :
          rows[i].account \in {journal_accounts[k].identifier : k \in 1..Len(journal_accounts)}
    /\ \A t \in RowTxnIds : ~TooFewRows(t) /\ BalancedOnEachDate(t)
    /\ \E t \in RowTxnIds : Cardinality(RowDatesOf(t)) >= 2

\* C18: load_txns loads a file whose transactions balance on each date when
\* one of them has rows on two dates or more: the differing dates raise
\* nothing and the transaction is returned with one posting per row.
C18_MultiDayTxnsLoad ==
    (pc = "txns" /\ MultiDayFile) =>
        /\ loaded.status = "ok"
        /\ \A k \in 1..Len(loaded.txns) :
              Len(loaded.txns[k].postings) = Len(RowsOfTxn(loaded.txns[k].id))

\* The rows (1, day 1, Chequing, 5), (1, day 1, Chequing, -5) and
\* (1, day 2, Chequing, 0) are read and TxnDateMismatch is raised.
MultiDayFileRejected ==
    /\ pc = "txns" /\ MultiDayFile
    /\ rows = << Row(1, 1, "Chequing", 5, NoDate), Row(1, 1, "Chequing", -5, NoDate),
                 Row(1, 2, "Chequing", 0, NoDate) >>
    /\ loaded.status = "TxnDateMismatch"

\* No file with a transaction on two dates is loaded.
MultiDayFileNeverLoads ==
    (pc = "txns" /\ \E t \in RowTxnIds : Cardinality(RowDatesOf(t)) >= 2)
    => loaded.status \in {"TxnDateMismatch", "UnknownAccount"}

(***************************************************************************)
(* Claims on the budget rules.                                             *)
(***************************************************************************)
\* The arguments give an end date not before the start or none, and a
\* recurrence other than once is given an end date or a number of times.
ValidBudgetArgs ==
    LET a == budget_rule.args
    IN  /\ a.recurrence.end_date = NoDate \/ a.recurrence.end_date >= a.start
        /\ \/ a.recurrence.rec_type = "ONCE"
           \/ a.recurrence.end_date # NoDate
           \/ a.recurrence.end_nb_of_times # NoTimes

\* The dates from d on, each the next_date of the one before, that are not
\* after limit, left of them at most when a number of times is given.
RECURSIVE ProjectFrom(_, _, _, _)
ProjectFrom(d, rec, limit, left) ==
    IF d > limit \/ left = <<0>> THEN <<>>
    ELSE <<d>> \o ProjectFrom(next_date(d, rec), rec, limit,
                              IF left = NoTimes THEN left ELSE <<left[1] - 1>>)

\* The dates the claim gives for the arguments a and the horizon end.
ProjectedDates(a, end) ==
    IF a.recurrence.rec_type = "ONCE" THEN <<a.start>>
    ELSE ProjectFrom(a.start, a.recurrence,
                     IF a.recurrence.end_date = NoDate THEN end
                     ELSE MinOf(end, a.recurrence.end_date),
                     a.recurrence.end_nb_of_times)

\* C19: a rule of valid arguments is constructed, and its date_list for a
\* horizon is the start date alone for a once rule and else the start date
\* followed by each next date in turn (interval days, weeks, months or
\* years further) up to the last that is not after the horizon nor after
\* the end of the rule; the monthly rule of 2023-01-15 with interval 1 and
\* three times gives 2023-01-15, 2023-02-15, 2023-03-15 for the horizons
\* from 2023-03-15 on.
C19_DateListSteps ==
    ValidBudgetArgs =>
        /\ pc = "rule" => budget_rule.status = "ok"
        /\ (pc = "rule" /\ result.op = "date_list") =>
              /\ result.status = "ok"
              /\ result.value = ProjectedDates(budget_rule.args, max_end)

MonthlyRuleOfThree ==
    BudgetRule("rule", Ymd(2023, 1, 15), BudgetAmount,
               Recurrence("MONTHLY", 1, NoDate, <<3>>), get_account_by_ident("Expenses"))

\* The dates of the claim's example are the ones next_date steps through.
MonthlyRuleOfThreeProjected ==
    ProjectedDates(MonthlyRuleOfThree, Ymd(2023, 12, 31))
        = <<Ymd(2023, 1, 15), Ymd(2023, 2, 15), Ymd(2023, 3, 15)>>

\* The construction of the monthly rule of the example raised TypeError.
MonthlyRuleOfThreeRaises ==
    /\ pc = "rule" /\ budget_rule.args = MonthlyRuleOfThree
    /\ budget_rule.status = "TypeError"

\* date_list of a constructed rule other than once, whose start is not
\* after the horizon, raised TypeError.
DateListRaises ==
    /\ pc = "rule" /\ result.op = "date_list" /\ result.status = "TypeError"
    /\ budget_rule.args.recurrence.rec_type = "MONTHLY"
    /\ budget_rule.args.recurrence.end_nb_of_times = <<1>>
    /\ budget_rule.args.start <= max_end

\* The date_list of a once rule is its start date.
OnceRuleYieldsStart ==
    (pc = "rule" /\ result.op = "date_list"
        /\ budget_rule.args.recurrence.rec_type = "ONCE")
    => result.status = "ok" /\ result.value = <<budget_rule.args.start>>

\* next_date itself steps by the calendar: the day is kept, or cut to the
\* length of the month.
NextDateSteps ==
    (pc = "args" /\ result.op = "next_date" /\ budget_rule.args.recurrence.interval = 1) =>
        LET a == budget_rule.args
            is(start, rec_type) == a.start = start /\ a.recurrence.rec_type = rec_type
        IN  /\ is(Ymd(2023, 1, 15), "MONTHLY") => result.value = Ymd(2023, 2, 15)
            /\ is(Ymd(2023, 1, 31), "MONTHLY") => result.value = Ymd(2023, 2, 28)
            /\ is(Ymd(2024, 2, 29), "YEARLY") => result.value = Ymd(2025, 2, 28)
            /\ is(Ymd(2023, 1, 31), "DAILY") => result.value = Ymd(2023, 2, 1)
            /\ is(Ymd(2023, 1, 31), "WEEKLY") => result.value = Ymd(2023, 2, 7)
            /\ is(Ymd(2024, 2, 29), "WEEKLY") => result.value = Ymd(2024, 3, 7)

\* The transaction the claim gives for the date d.
VirtualTxn(br, d) ==
    [id |-> None, date |-> d,
     postings |-> << [id |-> 1, account |-> budget_account, amount |-> br.amount],
                     [id |-> 2, account |-> br.account, amount |-> -br.amount] >>]

\* C20: when date_list of the rule for max_end gives dates,
\* budget_txn_rule_to_txns returns one transaction per date, in the order
\* of the dates, each of two postings: the rule's amount on the budget
\* account, the negated amount on the account of the rule.
C20_OneVirtualTxnPerDate ==
    (pc = "rule" /\ result.op = "budget_txn_rule_to_txns"
        /\ date_list(budget_rule.br, max_end).status = "ok") =>
        /\ result.status = "ok"
        /\ result.value = [k \in 1..Len(date_list(budget_rule.br, max_end).dates) |->
                             VirtualTxn(budget_rule.br,
                                        date_list(budget_rule.br, max_end).dates[k])]

\* budget_txn_rule_to_txns of the once rule of 2023-01-15 returned the
\* empty list.
OnceRuleUnrollsToNothing ==
    /\ pc = "rule" /\ result.op = "budget_txn_rule_to_txns" /\ result.status = "ok"
    /\ budget_rule.args.recurrence.rec_type = "ONCE"
    /\ budget_rule.args.start = Ymd(2023, 1, 15)
    /\ date_list(budget_rule.br, max_end).dates = <<Ymd(2023, 1, 15)>>
    /\ result.value = <<>>

\* budget_txn_rule_to_txns returns no transaction or raises.
UnrollNeverYieldsTxns ==
    result.op = "budget_txn_rule_to_txns" => result.value = <<>>

\* The occurrences the arguments a describe: from the start, by next_date,
\* up to the end date if one is given, the number of times at most if one
\* is given.
Occurrences(a) ==
    ProjectFrom(a.start, a.recurrence,
                IF a.recurrence.end_date = NoDate THEN Ymd(9999, 12, 31)
                ELSE a.recurrence.end_date,
                a.recurrence.end_nb_of_times)

NonOnceValidArgs ==
    /\ ValidBudgetArgs
    /\ budget_rule.args.recurrence.rec_type # "ONCE"

\* C21: a rule other than once, given an end date not before its start or a
\* number of times or both, is constructed; its end_nb_of_times is then the
\* number of its occurrences (those up to the end date, the given number at
\* most), the occurrences from the start up to its end_date are as many,
\* and date_list returns no more dates than that.
C21_EndDateAndTimesAgree ==
    (pc = "rule" /\ NonOnceValidArgs) =>
        /\ budget_rule.status = "ok"
        /\ budget_rule.br.recurrence.end_nb_of_times
             = <<Len(Occurrences(budget_rule.args))>>
        /\ Len(ProjectFrom(budget_rule.args.start, budget_rule.args.recurrence,
                           budget_rule.br.recurrence.end_date, NoTimes))
             = Len(Occurrences(budget_rule.args))
        /\ result.op = "date_list" =>
              /\ result.status = "ok"
              /\ Len(result.value) <= Len(Occurrences(budget_rule.args))

\* The construction of the weekly rule from 2023-01-15 to 2023-03-15 raised
\* TypeError.
WeeklyRuleToEndDateRaises ==
    /\ pc = "rule" /\ budget_rule.status = "TypeError"
    /\ budget_rule.args.start = Ymd(2023, 1, 15)
    /\ budget_rule.args.recurrence = Recurrence("WEEKLY", 1, Ymd(2023, 3, 15), NoTimes)

\* The rules other than once that are constructed from valid arguments are
\* those of one time without end date, and their end date is their start.
ConstructedRulesAreOfOneTime ==
    (pc = "rule" /\ NonOnceValidArgs /\ budget_rule.status = "ok") =>
        /\ budget_rule.args.recurrence.end_nb_of_times = <<1>>
        /\ budget_rule.args.recurrence.end_date = NoDate
        /\ budget_rule.br.recurrence.end_nb_of_times = <<1>>
        /\ budget_rule.br.recurrence.end_date = budget_rule.args.start

(***************************************************************************)
(* Claims on the load of the budget rules.                                 *)
(***************************************************************************)
\* The exceptions the claim gives for the defects of a row with a
\* recurrence.
RowDefects(row) ==
    (IF row.interval <= 0 THEN {"InvalidBudgetTxnRuleInterval"} ELSE {})
    \cup (IF row.end_date # NoDate /\ row.end_date < row.start
          THEN {"InvalidBudgetTxnRuleEndDate"} ELSE {})
    \cup (IF row.times # NoTimes /\ row.times[1] <= 0
          THEN {"InvalidBudgetTxnRuleEndNbOfTimes"} ELSE {})

DefectiveBudgetRows ==
    {i \in 1..Len(rows) : rows[i].recurrence # None /\ RowDefects(rows[i]) # {}}

\* C27: when a row of the budget file has an interval that is not positive,
\* an end date before its start or a number of times that is not positive,
\* load_budget_txn_rules returns no list and raises one of the three
\* exceptions of the rules.
C27_InvalidBudgetRulesRejected ==
    (pc = "budget_loaded" /\ DefectiveBudgetRows # {}
        /\ \A i \in 1..Len(rows) : rows[i].account = "Expenses") =>
        /\ loaded.rules = <<>>
        /\ loaded.status \in {"InvalidBudgetTxnRuleInterval", "InvalidBudgetTxnRuleEndDate",
                              "InvalidBudgetTxnRuleEndNbOfTimes"}

\* The daily rule of 0 times without end date is loaded.
RuleOfZeroTimesLoaded ==
    /\ pc = "budget_loaded" /\ loaded.status = "ok"
    /\ rows = << BudgetRow("rule", Ymd(2023, 1, 15), BudgetAmount, "Expenses", "DAILY", 1,
                           NoDate, <<0>>) >>
    /\ Len(loaded.rules) = 1

\* The row of interval 0 with the end date 2023-03-15 raised TypeError.
RuleOfIntervalZeroRaisesTypeError ==
    /\ pc = "budget_loaded" /\ loaded.status = "TypeError"
    /\ Len(rows) = 1 /\ rows[1].interval = 0 /\ rows[1].end_date = Ymd(2023, 3, 15)

\* A file whose first defective row has an end date before its start, or,
\* without end date, an interval that is not positive or a negative number
\* of times, is rejected with an exception of that row's defects.
DefectsReachedByVerifyRejected ==
    (pc = "budget_loaded" /\ DefectiveBudgetRows # {}
        /\ \A i \in 1..Len(rows) : rows[i].account = "Expenses") =>
        LET i == CHOOSE i \in DefectiveBudgetRows : \A j \in DefectiveBudgetRows : i <= j
            row == rows[i]
        IN  (/\ \A j \in 1..(i - 1) : rows[j].recurrence = None
             /\ \/ row.end_date # NoDate /\ row.end_date < row.start
                \/ row.end_date = NoDate /\ row.times \in {NoTimes, <<-1>>}
                \/ row.end_date = NoDate /\ row.times = <<0>> /\ row.interval <= 0)
            => loaded.status \in RowDefects(row) /\ loaded.rules = <<>>

(***************************************************************************)
(* Claims on auto_import.                                                  *)
(***************************************************************************)
\* What identifies a raw posting in the report.
ReportKey(p) == <<p.date, p.amount, p.statement_description>>

\* C22: auto_import returns, and the postings of its report of unmatched
\* descriptions are the postings handed to classify that no rule matches.
C22_UnmatchedAreTheUnclassified ==
    result.op = "auto_import" =>
        /\ result.status = "ok"
        /\ {ReportKey(result.unmatched[k]) : k \in 1..Len(result.unmatched)}
             = {ReportKey(result.unknownPs[k]) : k \in
                  {k \in 1..Len(result.unknownPs) :
                      first_matching_rule(classification_rules, result.unknownPs[k]) = 0}}

\* auto_import raised AttributeError on a journal of one transaction, for a
\* file of one row that no rule matches.
AutoImportRaisesOnImportedTxn ==
    /\ result.op = "auto_import" /\ result.status = "AttributeError"
    /\ Len(txns) = 1 /\ Len(bank_rows) = 1 /\ classification_rules = <<>>
    /\ Len(result.xs) = 1 /\ result.xs[1][1] = FALSE

\* import_from_bank_csv returned the transaction of a posting that a rule
\* matched, and the test of the report holds of it: the account of the rule
\* is the default second account.
MatchedTxnPassesUnmatchedTest ==
    /\ result.op = "import_from_bank_csv"
    /\ \E k \in 1..Len(result.value) :
          /\ result.value[k][1] = TRUE
          /\ reported_as_unmatched(result.value[k][2], import_config)

\* auto_import returns only when nothing is imported into a journal with
\* transactions.
AutoImportReturnsNothing ==
    (result.op = "auto_import" /\ result.status = "ok")
    => result.xs = <<>> /\ result.value = <<>> /\ txns # <<>>

\* C30: when import_from_bank_csv ran, add_txns was called on the
\* transactions it returned and import_from_bank_csv ran again on the same
\* file with the dedup keys of the journal, the second run returns no
\* transaction.
C30_SecondImportReturnsNothing ==
    result.op = "import_again" => result.value = <<>>

\* The same when add_txns returned.
SecondImportAfterAddReturnsNothing ==
    (result.op = "import_again" /\ result.added = "ok") => result.value = <<>>

\* A second run after two transactions of the same dedup key were imported
\* and added.
SecondImportAfterAddReached ==
    /\ result.op = "import_again" /\ result.added = "ok"
    /\ Len(result.first) = 2
    /\ dedup_key(result.first[1][2].postings[1]) = dedup_key(result.first[2][2].postings[1])

\* On a journal without transactions add_txns raised ValueError and the
\* second run returned the transaction of the first again.
SecondImportOnEmptyJournalRepeats ==
    /\ result.op = "import_again" /\ result.added = "ValueError"
    /\ txns = <<>> /\ Len(bank_rows) = 1
    /\ Len(result.first) = 1 /\ result.value = result.first

(***************************************************************************)
(* journal/autoimport.py: load_classification_rules, on the rows load_csv  *)
(* hands it: an empty cell is None.                                        *)
(***************************************************************************)
RuleRow(date_from, date_to, amnt_from, amnt_to, account, st_desc, st_payee, acc2, payee, comment) ==
    [date_from |-> date_from, date_to |-> date_to, amnt_from |-> amnt_from,
     amnt_to |-> amnt_to, account |-> account, st_desc |-> st_desc,
     st_payee |-> st_payee, acc2 |-> acc2, payee |-> payee, comment |-> comment]

\* The is_drop_all_rule of transaction.py, which knows no payee pattern.
is_drop_all_rule_without_payee(r) ==
    /\ r.match_date[1] = NoDate /\ r.match_date[2] = NoDate
    /\ r.match_amnt[1] = NoAmount /\ r.match_amnt[2] = NoAmount
    /\ r.match_account = NoText /\ r.match_statement_description = NoText
    /\ r.second_account = NoAccount

\* ClassificationRule.is_drop_all_rule: each of the eight fields "is None",
\* so a bound of 0 and an empty target account are told apart.
is_drop_all_rule(r) ==
    /\ r.match_date[1] = NoDate /\ r.match_date[2] = NoDate
    /\ r.match_amnt[1] = NoAmount /\ r.match_amnt[2] = NoAmount
    /\ r.match_account = NoText /\ r.match_statement_description = NoText
    /\ r.match_payee = NoText /\ r.second_account = NoAccount

\* The loop of load_classification_rules over the rows.
RECURSIVE load_rule_rows(_, _, _, _, _)
load_rule_rows(csv_rows, i, accounts_by_number, filter_drop_all, rules) ==
    IF i > Len(csv_rows) THEN [status |-> "ok", rules |-> rules]
    ELSE LET row == csv_rows[i]
         IN  IF row.acc2 # None /\ ~InDict(accounts_by_number, row.acc2)
             THEN [status |-> "UnknownAccount", rules |-> <<>>]
             ELSE LET acc2 == IF row.acc2 = None THEN NoAccount
                              ELSE account_by_id(accounts_by_number, row.acc2)
                      r == ClassificationRule(<<row.date_from, row.date_to>>,
                                              <<row.amnt_from, row.amnt_to>>,
                                              row.account, row.st_desc, row.st_payee,
                                              acc2, row.payee, row.comment)
                  IN  IF filter_drop_all /\ is_drop_all_rule(r)
                      THEN load_rule_rows(csv_rows, i + 1, accounts_by_number,
                                          filter_drop_all, rules)
                      ELSE load_rule_rows(csv_rows, i + 1, accounts_by_number,
                                          filter_drop_all, Append(rules, r))

load_classification_rules(csv_rows, accounts_by_number, filter_drop_all) ==
    load_rule_rows(csv_rows, 1, accounts_by_number, filter_drop_all, <<>>)

(***************************************************************************)
(* The rule files of the model: up to MaxRuleRows rows, loaded with and    *)
(* without the filter.                                                     *)
(***************************************************************************)
MaxRuleRows == 3

RuleRows ==
    { RuleRow(NoDate, NoDate, NoAmount, NoAmount, NoText, NoText, NoText, None, NoText, NoText),
      RuleRow(NoDate, NoDate, NoAmount, NoAmount, NoText, NoText, NoText, None, <<"p">>, <<"c">>),
      RuleRow(NoDate, NoDate, NoAmount, NoAmount, NoText, NoText, <<"a">>, None, NoText, NoText),
      RuleRow(NoDate, NoDate, <<0>>, NoAmount, NoText, NoText, NoText, None, NoText, NoText),
      RuleRow(NoDate, 2, NoAmount, NoAmount, NoText, NoText, NoText, None, NoText, NoText),
      RuleRow(NoDate, NoDate, NoAmount, NoAmount, <<"C">>, NoText, NoText, None, NoText, NoText),
      RuleRow(NoDate, NoDate, NoAmount, NoAmount, NoText, <<"a">>, NoText, None, NoText, NoText),
      RuleRow(NoDate, NoDate, NoAmount, NoAmount, NoText, NoText, NoText, "Expenses", NoText, NoText),
      RuleRow(NoDate, NoDate, NoAmount, NoAmount, NoText, NoText, NoText, "Savings", NoText, NoText) }

InitRules ==
    /\ pc \in {"rule_rows", "rule_rows_unfiltered"}
    /\ rows \in SeqUpTo(RuleRows, MaxRuleRows)
    /\ loaded = NoTxns
    /\ accounts = <<>> /\ chart = NoChart /\ NoBudget
    /\ NoJournal /\ NoImport

\* load_classification_rules(csvFile, accounts_by_number): the default filter.
LoadClassificationRules ==
    /\ pc = "rule_rows"
    /\ \E r \in {load_classification_rules(rows, journal_accounts, TRUE)} :
          loaded' = [status |-> r.status, rules |-> r.rules, filter_drop_all |-> TRUE]
    /\ pc' = "rules_loaded"
    /\ UNCHANGED <<rows, chartVars, journalVars, importVars, budgetVars>>

\* load_classification_rules(csvFile, accounts_by_number, False).
LoadAllClassificationRules ==
    /\ pc = "rule_rows_unfiltered"
    /\ \E r \in {load_classification_rules(rows, journal_accounts, FALSE)} :
          loaded' = [status |-> r.status, rules |-> r.rules, filter_drop_all |-> FALSE]
    /\ pc' = "rules_loaded"
    /\ UNCHANGED <<rows, chartVars, journalVars, importVars, budgetVars>>

NextRules == LoadClassificationRules \/ LoadAllClassificationRules

SpecRules == InitRules /\ [][NextRules]_vars

\* A row without date bound, amount bound, account, description or payee
\* pattern and without target account.
RowHasNoPredicate(i) ==
    /\ rows[i].date_from = NoDate /\ rows[i].date_to = NoDate
    /\ rows[i].amnt_from = NoAmount /\ rows[i].amnt_to = NoAmount
    /\ rows[i].account = NoText /\ rows[i].st_desc = NoText
    /\ rows[i].st_payee = NoText /\ rows[i].acc2 = None

\* The rows a load returns a rule for, in file order.
RowsReturned ==
    LET keep == {i \in 1..Len(rows) : ~(loaded.filter_drop_all /\ RowHasNoPredicate(i))}
        RECURSIVE from(_)
        from(i) == IF i > Len(rows) THEN <<>>
                   ELSE IF i \in keep THEN <<i>> \o from(i + 1) ELSE from(i + 1)
    IN  from(1)

\* The rule at position k of the list is the rule of row i.
RuleIsOfRow(k, i) ==
    LET r == loaded.rules[k]
    IN  /\ r.match_date = <<rows[i].date_from, rows[i].date_to>>
        /\ r.match_amnt = <<rows[i].amnt_from, rows[i].amnt_to>>
        /\ r.match_account = rows[i].account
        /\ r.match_statement_description = rows[i].st_desc
        /\ r.match_payee = rows[i].st_payee
        /\ r.payee = rows[i].payee /\ r.comment = rows[i].comment
        /\ IF rows[i].acc2 = None THEN r.second_account = NoAccount
           ELSE r.second_account.identifier = rows[i].acc2

\* C23: a load of a rule file whose target accounts are all known returns,
\* with the default filter, exactly the rules of the rows that are not
\* drop-all rules, in file order, and without the filter the rules of all
\* rows, the drop-all rules included.
C23_DropAllRulesFilteredByDefault ==
    (pc = "rules_loaded" /\ loaded.status = "ok") =>
        /\ Len(loaded.rules) = Len(RowsReturned)
        /\ \A k \in 1..Len(loaded.rules) : RuleIsOfRow(k, RowsReturned[k])
        /\ loaded.filter_drop_all =>
              \A k \in 1..Len(loaded.rules) : ~is_drop_all_rule(loaded.rules[k])
        /\ ~loaded.filter_drop_all => Len(loaded.rules) = Len(rows)

\* A file with a drop-all rule between a payee-pattern rule and a rule of
\* amount bound 0 is loaded with the default filter: two rules come back.
C23_Witness ==
    /\ pc = "rules_loaded" /\ loaded.status = "ok" /\ loaded.filter_drop_all
    /\ Len(rows) = 3 /\ RowHasNoPredicate(2)
    /\ rows[1].st_payee # NoText /\ rows[3].amnt_from = <<0>>
    /\ Len(loaded.rules) = 2

(***************************************************************************)
(* amount.py: amounts and their strings.  A string is the sequence of its  *)
(* characters.                                                             *)
(***************************************************************************)
DigitChars == <<"0", "1", "2", "3", "4", "5", "6", "7", "8", "9">>

is_digit(c) == \E d \in 1..10 : DigitChars[d] = c

digit_value(c) == (CHOOSE d \in 1..10 : DigitChars[d] = c) - 1

\* str(n) of a natural number.
RECURSIVE nat_to_str(_)
nat_to_str(n) ==
    IF n < 10 THEN <<DigitChars[n + 1]>>
    ELSE Append(nat_to_str(n \div 10), DigitChars[(n % 10) + 1])

\* int(s) of a string of digits.
RECURSIVE digits_to_nat(_)
digits_to_nat(s) ==
    IF s = <<>> THEN 0
    ELSE 10 * digits_to_nat(SubSeq(s, 1, Len(s) - 1)) + digit_value(s[Len(s)])

\* s.replace(old, new), old not empty: the occurrences from the left, not
\* overlapping.
RECURSIVE str_replace(_, _, _)
str_replace(s, old, new) ==
    IF Len(s) < Len(old) THEN s
    ELSE IF SubSeq(s, 1, Len(old)) = old
         THEN new \o str_replace(SubSeq(s, Len(old) + 1, Len(s)), old, new)
         ELSE <<s[1]>> \o str_replace(SubSeq(s, 2, Len(s)), old, new)

\* s.strip() for the blank.
RECURSIVE str_strip(_)
str_strip(s) ==
    IF s = <<>> THEN s
    ELSE IF s[1] = " " THEN str_strip(SubSeq(s, 2, Len(s)))
    ELSE IF s[Len(s)] = " " THEN str_strip(SubSeq(s, 1, Len(s) - 1))
    ELSE s

\* f"{amount_to_float(n):.2f}": the sign, the units, the point and the two
\* digits of the hundredths.
format_2f(n) ==
    LET a == IF n < 0 THEN -n ELSE n
        sign == IF n < 0 THEN <<"-">> ELSE <<>>
    IN  sign \o nat_to_str(a \div 100) \o <<".">>
             \o <<DigitChars[((a % 100) \div 10) + 1], DigitChars[(a % 10) + 1]>>

amount_to_str(n, decimal_sep) == str_replace(format_2f(n), <<".">>, decimal_sep)

\* float(s) for a string of a sign, digits and points: None (ValueError)
\* unless the string is an optional sign, then digits with at most one point
\* among them and one digit at least.
parse_float(s) ==
    LET neg == s # <<>> /\ s[1] = "-"
        body == IF s # <<>> /\ s[1] \in {"-", "+"} THEN SubSeq(s, 2, Len(s)) ELSE s
        points == {i \in 1..Len(body) : body[i] = "."}
        valid == /\ \A i \in 1..Len(body) : is_digit(body[i]) \/ body[i] = "."
                 /\ Cardinality(points) <= 1
                 /\ \E i \in 1..Len(body) : is_digit(body[i])
        at == IF points = {} THEN Len(body) + 1 ELSE CHOOSE i \in points : TRUE
    IN  IF ~valid THEN [valid |-> FALSE, neg |-> FALSE, whole |-> <<>>, frac |-> <<>>]
        ELSE [valid |-> TRUE, neg |-> neg, whole |-> SubSeq(body, 1, at - 1),
              frac |-> SubSeq(body, at + 1, Len(body))]

\* float_to_amount: int(round(n * 100)) of a parsed float; the third decimal
\* decides the rounding.
float_to_amount(f) ==
    LET d(k) == IF k <= Len(f.frac) THEN digit_value(f.frac[k]) ELSE 0
        a == 100 * digits_to_nat(f.whole) + 10 * d(1) + d(2) + (IF d(3) >= 5 THEN 1 ELSE 0)
    IN  IF f.neg THEN -a ELSE a

\* any_to_amount of a str.
any_to_amount(s, decimal_sep, currency_sign, thousands_sep) ==
    LET s1 == str_strip(s)
        s2 == IF currency_sign # <<>> THEN str_replace(s1, currency_sign, <<>>) ELSE s1
        s3 == IF thousands_sep # <<>> THEN str_replace(s2, thousands_sep, <<>>) ELSE s2
        s4 == IF decimal_sep # <<>> THEN str_replace(s3, decimal_sep, <<".">>) ELSE s3
        s5 == IF s4[1] = "(" /\ s4[Len(s4)] = ")"
              THEN <<"-">> \o SubSeq(s4, 2, Len(s4) - 1) ELSE s4
        f == parse_float(s5)
    IN  IF s4 = <<>> THEN [status |-> "IndexError", amount |-> 0]
        ELSE IF ~f.valid THEN [status |-> "ValueError", amount |-> 0]
        ELSE [status |-> "ok", amount |-> float_to_amount(f)]

\* date.isoformat() and date.fromisoformat of a date y-m-d.
isoformat(dt) ==
    LET two(n) == <<DigitChars[(n \div 10) + 1], DigitChars[(n % 10) + 1]>>
        y == YearOf(dt)
    IN  two(y \div 100) \o two(y % 100) \o <<"-">> \o two(MonthOf(dt)) \o <<"-">> \o two(DayOf(dt))

fromisoformat(s) ==
    Ymd(digits_to_nat(SubSeq(s, 1, 4)), digits_to_nat(SubSeq(s, 6, 7)),
        digits_to_nat(SubSeq(s, 9, 10)))

(***************************************************************************)
(* balance.py: write_balances and load_and_normalize_balances.             *)
(***************************************************************************)
\* write_balances: the sorted list, and the row written for each balance.
write_balances(bals, decimal_separator) ==
    LET bs == sorted(bals, ByDateAndNumber)
    IN  [bals |-> bs,
         rows |-> [k \in 1..Len(bs) |->
                     <<isoformat(bs[k].date), bs[k].account.identifier,
                       amount_to_str(bs[k].statement_balance, decimal_separator)>>]]

\* normalize_balance of the row load_balances read: the currency sign and
\* the thousands separator are the defaults of normalize_balance.
normalize_balance(row, accounts_by_id, decimal_sep) ==
    LET a == any_to_amount(row[3], decimal_sep, <<"$">>, <<" ">>)
    IN  IF ~InDict(accounts_by_id, row[2]) THEN [status |-> "ValueError", balance |-> None]
        ELSE IF a.status # "ok" THEN [status |-> a.status, balance |-> None]
        ELSE [status |-> "ok",
              balance |-> Balance(fromisoformat(row[1]), account_by_id(accounts_by_id, row[2]),
                                  a.amount)]

load_and_normalize_balances(csv_rows, accounts_by_id, decimal_separator) ==
    LET bs == [k \in 1..Len(csv_rows) |->
                  normalize_balance(csv_rows[k], accounts_by_id, decimal_separator)]
        failed == {k \in 1..Len(bs) : bs[k].status # "ok"}
    IN  IF failed = {} THEN [status |-> "ok", balances |-> [k \in 1..Len(bs) |-> bs[k].balance]]
        ELSE [status |-> bs[CHOOSE k \in failed : \A j \in failed : k <= j].status,
              balances |-> <<>>]

(***************************************************************************)
(* The checkpoints of the model are written to a file of a decimal         *)
(* separator and read back.                                                *)
(***************************************************************************)
MaxWritten == 2

WrittenAmounts == {-1234, -150, -5, 0, 7, 150, 100000}
WrittenDates == {Ymd(2023, 12, 31), Ymd(2024, 1, 5)}
DecimalSeparators == {<<".">>, <<",">>, <<" ">>, <<"$">>, <<"-">>, <<>>}

WrittenBalances ==
    {Balance(d, get_account_by_ident(a), n) :
        d \in WrittenDates, a \in {"Chequing", "Expenses"}, n \in WrittenAmounts}

InitWrite ==
    /\ pc = "to_write"
    /\ balance_assertions \in SeqUpTo(WrittenBalances, MaxWritten)
    /\ \E sep \in DecimalSeparators :
          result = [op |-> "csv_config", status |-> "none", decimal_separator |-> sep]
    /\ txns = <<>> /\ cache = NoCache
    /\ rows = <<>> /\ loaded = NoTxns
    /\ accounts = <<>> /\ chart = NoChart /\ NoBudget /\ NoImport

WriteBalances ==
    /\ pc = "to_write"
    /\ \E w \in {write_balances(balance_assertions, result.decimal_separator)} :
          /\ balance_assertions' = w.bals
          /\ rows' = w.rows
    /\ pc' = "written"
    /\ UNCHANGED <<chartVars, loaded, txns, cache, result, importVars, budgetVars>>

LoadAndNormalizeBalances ==
    /\ pc = "written"
    /\ loaded' = load_and_normalize_balances(rows, journal_accounts, result.decimal_separator)
    /\ pc' = "read_back"
    /\ UNCHANGED <<rows, chartVars, journalVars, importVars, budgetVars>>

NextWrite == WriteBalances \/ LoadAndNormalizeBalances

SpecWrite == InitWrite /\ [][NextWrite]_vars

\* The checkpoints read back are the checkpoints written: date, account and
\* amount, row by row.
ReadBackTheSame ==
    /\ loaded.status = "ok"
    /\ Len(loaded.balances) = Len(balance_assertions)
    /\ \A k \in 1..Len(balance_assertions) :
          /\ loaded.balances[k].date = balance_assertions[k].date
          /\ loaded.balances[k].account.identifier = balance_assertions[k].account.identifier
          /\ loaded.balances[k].statement_balance = balance_assertions[k].statement_balance

\* C24: after write then load, the checkpoints read back are the
\* checkpoints of the journal (date, account, amount), whatever the decimal
\* separator of the file and for negative amounts too.
C24_WriteThenLoadIsIdentity ==
    pc = "read_back" => ReadBackTheSame

\* With the point or the comma as decimal separator every checkpoint comes
\* back, the negative ones included.
PointAndCommaSurvive ==
    (pc = "read_back" /\ result.decimal_separator \in {<<".">>, <<",">>}) => ReadBackTheSame

\* A checkpoint of 1.50 written with the blank as decimal separator is read
\* back as 150.00.
BlankSeparatorMultipliesAmount ==
    /\ pc = "read_back" /\ result.decimal_separator = <<" ">>
    /\ Len(balance_assertions) = 1 /\ balance_assertions[1].statement_balance = 150
    /\ rows[1][3] = <<"1", " ", "5", "0">>
    /\ loaded.status = "ok" /\ loaded.balances[1].statement_balance = 15000

\* A negative checkpoint written with "-" as decimal separator cannot be read.
MinusSeparatorRaises ==
    /\ pc = "read_back" /\ result.decimal_separator = <<"-">>
    /\ Len(balance_assertions) = 1 /\ balance_assertions[1].statement_balance = -5
    /\ loaded.status = "ValueError"

\* A negative checkpoint written with the comma comes back.
NegativeWithCommaSurvives ==
    /\ pc = "read_back" /\ result.decimal_separator = <<",">>
    /\ Len(balance_assertions) = 1 /\ balance_assertions[1].statement_balance = -1234
    /\ rows[1][3] = <<"-", "1", "2", ",", "3", "4">>
    /\ ReadBackTheSame

(***************************************************************************)
(* Claims on the cycle check of build_chart_of_accounts.                   *)
(***************************************************************************)
\* The record at position i lies on a cycle of the parent links of the
\* records: following them from it comes back to it.
RECURSIVE LeadsBackTo(_, _, _)
LeadsBackTo(i, identifier, steps) ==
    /\ steps > 0
    /\ \E j \in 1..Len(accounts) :
          /\ accounts[j].identifier = identifier
          /\ \/ j = i
             \/ HasParent(accounts[j]) /\ LeadsBackTo(i, accounts[j].parent, steps - 1)

OnCycle(i) == HasParent(accounts[i]) /\ LeadsBackTo(i, accounts[i].parent, Len(accounts))

\* C25: build_chart_of_accounts ends on every list of accounts, by a chart
\* or by an error, and it never returns a chart when the parent links of the
\* records hold a cycle.
C25_CycleCheckEndsWithAccountCycle ==
    pc = "chart" =>
        /\ chart.status # "hang"
        /\ (\E i \in 1..Len(accounts) : OnCycle(i)) => chart.status # "ok"

\* a (1001, below b) comes before b (1002, below itself): the walk from a
\* steps from b to b for ever and never meets a.
ChainIntoCycleNeverReturns ==
    /\ pc = "chart" /\ chart.status = "hang"
    /\ accounts = << Account("a", 1001, "b"), Account("b", 1002, "b") >>

\* The same two records with b first raise AccountCycle.
CycleFoundFromInside ==
    /\ pc = "chart" /\ chart.status = "AccountCycle"
    /\ accounts = << Account("b", 1002, "b"), Account("a", 1001, "b") >>

\* No chart is returned from records whose parent links hold a cycle.
NoChartWithCycle ==
    (pc = "chart" /\ \E i \in 1..Len(accounts) : OnCycle(i)) => chart.status # "ok"

(***************************************************************************)
(* transaction.py: subset_sum on lists of postings of bounded length.      *)
(***************************************************************************)
MaxSubset == 4

SubsetAmounts == {-3, -1, 0, 2, 5}
SubsetTargets == {-4, -1, 0, 1, 4, 7, 9}

\* The postings of a list of amounts, on Chequing on day 1.
SubsetPostings(amounts) ==
    [i \in 1..Len(amounts) |->
        Posting(i, 1, get_account_by_ident("Chequing"), amounts[i], NoText, 1, NoText, NoText)]

InitSubset ==
    /\ pc = "postings_and_target"
    /\ \E amounts \in SeqUpTo(SubsetAmounts, MaxSubset) : raw_postings = SubsetPostings(amounts)
    /\ \E target \in SubsetTargets :
          result = [op |-> "target", status |-> "none", target |-> target]
    /\ txns = <<>> /\ balance_assertions = <<>> /\ cache = NoCache
    /\ classification_rules = <<>> /\ bank_rows = <<>> /\ import_config = NoImportConfig
    /\ from_date = NoDate /\ known_postings = EmptyDict
    /\ accounts = <<>> /\ chart = NoChart /\ NoBudget /\ rows = <<>> /\ loaded = NoTxns

SubsetSum ==
    /\ pc = "postings_and_target"
    /\ \E r \in {subset_sum(raw_postings, result.target)} :
          result' = [op |-> "subset_sum", status |-> r.status, xs |-> r.xs,
                     target |-> result.target]
    /\ pc' = "subset_sum_returned"
    /\ UNCHANGED <<chartVars, loadVars, txns, balance_assertions, cache, importVars, budgetVars>>

NextSubset == SubsetSum

SpecSubset == InitSubset /\ [][NextSubset]_vars

\* The sum of the amounts of the postings at a set of positions.
RECURSIVE AmountOfPositions(_)
AmountOfPositions(S) ==
    IF S = {} THEN 0
    ELSE LET k == CHOOSE k \in S : TRUE
         IN  raw_postings[k].amount + AmountOfPositions(S \ {k})

\* Some postings, one at least, add up to the target.
SomeSubsetAddsUp ==
    \E S \in SUBSET (1..Len(raw_postings)) : S # {} /\ AmountOfPositions(S) = result.target

\* C26: subset_sum returns [] for the target 0; for another target it
\* returns postings at pairwise distinct positions whose amounts add up to the
\* target whenever one posting at least or several add up to it, and None
\* when no such postings exist.
C26_SubsetSumFindsASubset ==
    pc = "subset_sum_returned" =>
        IF result.target = 0 THEN result.status = "empty"
        ELSE IF SomeSubsetAddsUp
        THEN /\ result.status = "found"
             /\ Len(result.xs) = Cardinality(Range(result.xs))
             /\ Range(result.xs) \subseteq 1..Len(raw_postings)
             /\ AmountOfPositions(Range(result.xs)) = result.target
        ELSE result.status = "None"

\* Three postings were returned for a target no single posting and no pair
\* of postings reaches.
C26_Witness ==
    /\ pc = "subset_sum_returned" /\ result.status = "found" /\ Len(result.xs) = 3
    /\ \A S \in SUBSET (1..Len(raw_postings)) :
          (S # {} /\ Cardinality(S) < 3) => AmountOfPositions(S) # result.target

\* None is returned for postings of which no subset adds up to the target.
SubsetSumReturnsNone ==
    /\ pc = "subset_sum_returned" /\ result.status = "None" /\ Len(raw_postings) = MaxSubset

(***************************************************************************)
(* The ids of the transactions: a journal loaded from a file with ids of   *)
(* its own, to which transactions carrying ids are added and on which      *)
(* auto_balance is called.                                                 *)
(***************************************************************************)
LoadedIds == {<<1>>, <<7>>, <<3, 1>>, <<2, 9>>}
CarriedIds == {<<0>>, <<1>>, <<50, 1>>, <<7, 7>>}

\* The transactions of a loaded file with the ids of the file.
TxnsWithIds(ids, sh) == [k \in 1..Len(ids) |-> ShapeTxn(ids[k], 2 * k - 1, sh)]

\* The transactions handed to add_txns, with the ids they carry.
TxnsCarrying(ids, pid, sh) == [k \in 1..Len(ids) |-> ShapeTxn(ids[k], pid + 2 * (k - 1), sh)]

InitIds ==
    /\ pc = "journal"
    /\ \E ids \in LoadedIds, sh \in IndexShapes : txns = TxnsWithIds(ids, sh)
    /\ balance_assertions \in SeqUpTo(IndexBalances, MaxBalances)
    /\ cache = init_txns_cache(txns, balance_assertions)
    /\ result = NoResult
    /\ accounts = <<>> /\ chart = NoChart /\ NoBudget /\ rows = <<>> /\ loaded = NoTxns
    /\ NoImport

\* Journal.add_txns(new) on a journal with transactions.
AddTxnsCarrying ==
    /\ pc = "journal"
    /\ txns # <<>> /\ Len(txns) <= MaxTxns
    /\ \E ids \in CarriedIds, sh \in IndexShapes :
          \E added \in {renumbered(txns, TxnsCarrying(ids, next_pid(txns), sh))} :
             /\ txns' = txns \o added
             /\ cache' = init_txns_cache(txns', balance_assertions)
             /\ result' = [op |-> "add_txns", status |-> "ok", carried |-> ids]
    /\ UNCHANGED <<pc, balance_assertions, chartVars, loadVars, importVars, budgetVars>>

NextIds == AddTxnsCarrying \/ AutoBalance

SpecIds == InitIds /\ [][NextIds]_vars

TxnIds(ts) == {ts[k].id : k \in 1..Len(ts)}

\* The ids of the transactions of the journal are pairwise distinct.
IdsDistinct == Cardinality(TxnIds(txns)) = Len(txns)

\* A call keeps the transactions of the journal with their ids and gives
\* every transaction it adds an id above every id of the journal before.
IdsGrow ==
    /\ Len(txns') >= Len(txns)
    /\ \A k \in 1..Len(txns) : txns'[k].id = txns[k].id
    /\ \A k \in (Len(txns) + 1)..Len(txns') : \A j \in 1..Len(txns) : txns'[k].id > txns[j].id

\* C28: in a journal loaded with one transaction at least, after any
\* sequence of add_txns and auto_balance calls the ids of the transactions
\* are pairwise distinct, and every transaction a call adds gets an id
\* strictly greater than every id the journal held before the call, whatever
\* id it carried.
C28_IdsDistinctAndGrowing == [](IdsDistinct) /\ [][IdsGrow]_vars

\* Two transactions that carried the id 7 were added to a journal that holds
\* the id 7, and auto_balance added a transaction after them.
C28_Witness ==
    /\ result.op = "auto_balance" /\ Len(result.value) >= 1
    /\ Len(txns) >= 4 /\ txns[1].id = 7
    /\ txns[2].id = 8 /\ txns[3].id = 9 /\ txns[Len(txns)].id >= 10

(***************************************************************************)
(* The sum of the balances of the five roots: a journal is loaded from a   *)
(* transaction file, then auto_balance and auto_statement_date are called  *)
(* and transactions that classify built are added.                         *)
(***************************************************************************)
\* The transactions of the file, two rows each: a deposit of 3 on Chequing on
\* day 8, a deposit of 5 on Project North on day 1 that clears on day 3, and
\* a transaction that is not balanced.
SumFileTxns ==
    { <<Row(0, 8, "Chequing", 3, NoDate), Row(0, 8, "Expenses", -3, NoDate)>>,
      <<Row(0, 1, "Project North", 5, 3), Row(0, 1, "Expenses", -5, NoDate)>>,
      <<Row(0, 8, "Chequing", 4, NoDate), Row(0, 8, "Expenses", -3, NoDate)>> }

\* The rows of a file of transactions, the k-th with the id k.
SumFileRows(file) ==
    Concat([k \in 1..Len(file) |->
               [j \in 1..Len(file[k]) |-> [file[k][j] EXCEPT !.txn_id = k]]])

\* The postings of the bank file: -5 on day 1, and 4 on day 3 with a
\* description.
SumRawShapes ==
    { [date |-> 1, amount |-> -5, statement_description |-> NoText],
      [date |-> 3, amount |-> 4, statement_description |-> <<"a", "b">>] }

InitSum ==
    /\ pc = "rows"
    /\ \E file \in SeqUpTo(SumFileTxns, MaxTxns) : rows = SumFileRows(file)
    /\ loaded = NoTxns
    /\ txns = <<>> /\ cache = NoCache /\ result = NoResult
    /\ balance_assertions \in SeqUpTo(IndexBalances, MaxBalances - 1)
    /\ accounts = <<>> /\ chart = NoChart /\ NoBudget /\ NoImport

\* Journal.load: load_txns, then _init_txns_cache; the journal is not loaded
\* when load_txns raises.
LoadJournal ==
    /\ pc = "rows"
    /\ \E r \in {load_txns(rows, journal_accounts)} :
          /\ loaded' = r
          /\ IF r.status = "ok"
             THEN /\ txns' = r.txns
                  /\ cache' = init_txns_cache(r.txns, balance_assertions)
                  /\ pc' = "journal"
             ELSE /\ pc' = "not_loaded"
                  /\ UNCHANGED <<txns, cache>>
    /\ UNCHANGED <<rows, balance_assertions, result, chartVars, importVars, budgetVars>>

\* classify on one posting of a bank file, then Journal.add_txns on the
\* transactions of the list it returns.
AddClassified ==
    /\ pc = "journal"
    /\ Len(txns) < MaxTxns
    /\ \E sh \in SumRawShapes, rules \in AutoImportRules :
       \E xs \in {classify(RawPostings(<<sh>>), rules, ImportConfig(FALSE).default_snd_account)} :
          IF txns = <<>>
          THEN /\ result' = [op |-> "add_classified", status |-> "ValueError", added |-> <<>>]
               /\ UNCHANGED <<txns, cache>>
          ELSE \E added \in {renumbered(txns, imported_txns(txns, xs))} :
                  /\ txns' = txns \o added
                  /\ cache' = init_txns_cache(txns', balance_assertions)
                  /\ result' = [op |-> "add_classified", status |-> "ok", added |-> added]
    /\ UNCHANGED <<pc, balance_assertions, chartVars, loadVars, importVars, budgetVars>>

NextSum == LoadJournal \/ AutoBalance \/ AutoStatementDate \/ AddClassified

SpecSum == InitSum /\ [][NextSum]_vars

SumDates == {0, 1, 2, 3, 7, 8, 9, 10}

\* account_balance(root, d, use_statement_date=False, include_subaccounts=True)
\* added up over the five roots.
SumOfRoots(d) ==
    SumSeq([t \in 1..5 |-> account_balance(cache, get_account_by_ident(AccountType[t]), d,
                                           FALSE, TRUE)])

\* C29: in a loaded journal, after any sequence of auto_balance and
\* auto_statement_date calls and of additions of transactions that classify
\* built, the balances by transaction date of the five roots, sub-accounts
\* included, add up to 0 on every date.
C29_RootsAddUpToZero ==
    pc = "journal" => \A d \in SumDates : SumOfRoots(d) = 0

\* The journal holds a plug of auto_balance (on Income), a transaction of
\* classify on the default account (Equity) and a posting whose statement
\* date auto_statement_date moved, and Assets is not 0 on day 8.
C29_Witness ==
    /\ pc = "journal"
    /\ \E p \in Range(all_postings(txns)) : p.account.identifier = "Income"
    /\ \E p \in Range(all_postings(txns)) : p.account.identifier = "Equity"
    /\ \E p \in Range(all_postings(txns)) : p.statement_date > p.date + 1
    /\ account_balance(cache, get_account_by_ident("Assets"), 8, FALSE, TRUE) # 0

=============================================================================
